---- MODULE Spec2Model ----
(***************************************************************************)
(* Model of the client-side real-time synchronisation engine of ogradio:   *)
(*   - AzuraCastRealtimeClient (src/src/lib/azuracast/realtime.ts) with    *)
(*     the hooks useAzuraCastRealtime and useNowPlaying that drive it,     *)
(*   - useChat (optimistic chat messages over the "chat-room" topic),      *)
(*   - useSongRequests (optimistic requests and votes, "song-requests").   *)
(* Every asynchronous function is cut at its awaits: one action per        *)
(* segment that runs without yielding to the event loop.  React state      *)
(* updaters (setX(prev => ...)) are applied to the current state.          *)
(***************************************************************************)
EXTENDS Integers, Sequences, FiniteSets, TLC

(***************************************************************************)
(* Bounds of the model.                                                    *)
(***************************************************************************)
MaxFailedReconnects == 6
MaxPolls == 2
MaxTrack == 2
MaxClock == 1
MaxSends == 2
MaxContent == 2
MaxAdds == 1
MaxToggles == 2
MaxStatusChanges == 1
MaxResubmits == 1
MaxChannels == 2
MaxTicks == 4
MaxSignals == 2
MaxListLen == 3
MaxVotes == 1
MaxUpdates == 2

(***************************************************************************)
(* Program constants.                                                      *)
(***************************************************************************)
maxReconnectAttempts == 5
reconnectDelays == <<1000, 2000, 5000, 10000, 30000>>

\* part_003:40, useSongRequests.ts:15-16
MAX_MESSAGE_LENGTH == 500
MAX_SONG_NAME_LENGTH == 100
MAX_ARTIST_LENGTH == 100

\* part_003:41, in milliseconds
TYPING_TIMEOUT == 3000

VARIABLES
  \* ---- AzuraCastRealtimeClient (realtime.ts:29-35)
  eventSource,        \* "null", or the readyState of this.eventSource
  status,             \* this.status
  reconnectAttempts,  \* this.reconnectAttempts
  reconnectTimeout,   \* this.reconnectTimeout: "null", or the state of the
                      \* timer the handle names ("pending", "fired")
  pendingTimers,      \* reconnection timers set and neither fired nor cleared
  lastDelay,          \* delay of the timer scheduled last (0: none yet)
  \* ---- useAzuraCastRealtime / useNowPlaying
  sseEnabled,         \* NEXT_PUBLIC_ENABLE_AZURACAST_REALTIME !== 'false'
  esSupported,        \* typeof EventSource !== 'undefined'
  mounted,            \* "init", "mounted", "unmounted"
  hookStatus,         \* the React state `status` of useAzuraCastRealtime
  polling,            \* the polling effect holds a running interval
  pollInFlight,       \* fetchData() calls in flight whose effect is current
  stalePolls,         \* fetchData() calls in flight whose effect was cleaned up
  online,             \* the browser's network status
  npData,             \* useNowPlaying's data (0: null)
  \* ---- history variables used to state the claims
  failedReconnects,   \* consecutive automatic attempts that ended closed
  autoAttempt,        \* the current stream was opened by the reconnect timer
  lastCall,           \* the last method or handler of the client that ran
  \* ---- shared environment
  clock,              \* Date.now(), in milliseconds
  \* ---- useChat, one hook instance per client
  dbMessages,         \* rows of table messages, in insertion order
  messages,           \* messages[c]: the React state `messages`
  sends,              \* sends[c]: the sendMessage calls of c, each with its pc
  chatNet,            \* chatNet[c]: 'new-message' payloads on their way to c
  chatLoad,           \* chatLoad[c]: loadMessages of c: [pc, data]
  \* ---- useSongRequests, one hook instance per client
  dbRequests,         \* rows of table song_requests, in insertion order
  dbVotes,            \* rows of table upvotes: << request, voter, serial >>
  requests,           \* requests[c]: the React state `requests`
  userVotes,          \* userVotes[c]: the React state `userVotes`
  adds,               \* adds[c]: the addRequest calls of c, each with its pc
  toggles,            \* toggles[c]: the toggleVote calls of c, each with its pc
  reqNet,             \* reqNet[c]: 'song-requests' events on their way to c
  reqLoad,            \* reqLoad[c]: loadRequests of c: [pc, requestsData, votesData]
  statusChanges,      \* status changes made so far by the station's operator
  \* ---- useRealtimeBroadcast, the hook instances of each client on one topic
  channels,           \* channels[c]: the channels the instances of c created
  channelRef,         \* channelRef[c]: channelRef.current, 0 for null
  received,           \* received[c]: callbacks run for the last envelope
  \* ---- useChat, the typing indicator of each hook instance
  time,               \* milliseconds passed on the timer clock of the browsers
  chatMounted,        \* chatMounted[c]: the component using useChat is mounted
  typingUsers,        \* typingUsers[c]: the React state `typingUsers`
  typingTimers,       \* typingTimers[c]: pending timers set by handleTyping
  typingTimeoutRef,   \* typingTimeoutRef[c]: "null", or the state of the timer
  typingNet,          \* typingNet[c]: 'typing' payloads on their way to c
  typingSent,         \* 'typing' payloads broadcast so far
  timerRuns,          \* timerRuns[c]: the timer callback of c that ran last
  \* ---- a caller of sortRequests
  sortInput,          \* the array handed to sortRequests
  sortResult,         \* the array the last call returned
  sortCalls,          \* calls made: the second one sorts the result of the first
  \* ---- useAuth
  profiles,           \* profiles[c]: the profile AuthProvider gives client c
  \* ---- useNowPlaying, one hook instance per client, on topic 'now-playing'
  nowPlaying,         \* nowPlaying[c]: the React state `data` (0: null)
  trackNet,           \* trackNet[c]: 'track-update' payloads on their way to c
  trackFetches,       \* stream updates and poll results the clients obtained
  trackBroadcasts     \* calls of broadcast('track-update', ...) made so far

sseVars == << eventSource, status, reconnectAttempts, reconnectTimeout,
              pendingTimers, lastDelay, sseEnabled, esSupported, mounted,
              hookStatus, polling, pollInFlight, stalePolls, online, npData,
              failedReconnects, autoAttempt, lastCall >>

chatVars == << clock, dbMessages, messages, sends, chatNet, chatLoad >>

reqVars == << dbRequests, dbVotes, requests, userVotes, adds, toggles, reqNet,
              reqLoad, statusChanges >>

chanVars == << channels, channelRef, received >>

\* the typing indicator of useChat
typVars == << time, chatMounted, typingUsers, typingTimers, typingTimeoutRef,
              typingNet, typingSent, timerRuns >>

\* a caller of sortRequests
sortVars == << sortInput, sortResult, sortCalls >>

\* useAuth
authVars == << profiles >>

\* useNowPlaying of every client
trackVars == << nowPlaying, trackNet, trackFetches, trackBroadcasts >>

hookVars == << authVars, typVars, sortVars, trackVars >>

vars == << sseVars, chatVars, reqVars, chanVars, hookVars >>

Clients == {1, 2}
Contents == 1..MaxContent

Tracks == 1..MaxTrack

(***************************************************************************)
(* AzuraCastRealtimeClient.  The object's fields are handled as one record *)
(* so that the methods compose (the timer callback runs disconnect() and   *)
(* then connect()).  Field hook carries the last status handed to          *)
(* onStatusChange, which useAzuraCastRealtime stores in its state, and     *)
(* field notified every status handed to it during the call; field         *)
(* onUpdate carries what onUpdate was called with (0: it was not called).  *)
(***************************************************************************)
Client ==
  [ eventSource |-> eventSource, status |-> status,
    reconnectAttempts |-> reconnectAttempts,
    reconnectTimeout |-> reconnectTimeout, pendingTimers |-> pendingTimers,
    lastDelay |-> lastDelay, hook |-> hookStatus, notified |-> << >>,
    onUpdate |-> 0 ]

\* setStatus (realtime.ts:210-216): notifies only when the status changes.
setStatus(c, s) ==
  IF c.status # s
  THEN [c EXCEPT !.status = s, !.hook = s, !.notified = Append(@, s)]
  ELSE c

Min(a, b) == IF a < b THEN a ELSE b

\* scheduleReconnect (realtime.ts:191-205)
scheduleReconnect(c) ==
  IF c.reconnectAttempts >= maxReconnectAttempts
  THEN c
  ELSE [c EXCEPT !.reconnectTimeout = "pending",
                 !.pendingTimers = c.pendingTimers + 1,
                 !.lastDelay = reconnectDelays[
                     Min(c.reconnectAttempts, Len(reconnectDelays) - 1) + 1]]

\* disconnect without its clearTimeout.
disconnect_KeepsTimer(c) ==
  LET c2 == IF c.eventSource # "null"
            THEN [c EXCEPT !.eventSource = "null"]
            ELSE c
      c3 == setStatus(c2, "disconnected")
  IN  [c3 EXCEPT !.reconnectAttempts = 0]

\* disconnect (realtime.ts:125-140)
disconnect(c) ==
  LET c1 == IF c.reconnectTimeout # "null"
            THEN [c EXCEPT !.reconnectTimeout = "null",
                           !.pendingTimers =
                              IF c.reconnectTimeout = "pending"
                              THEN c.pendingTimers - 1 ELSE c.pendingTimers]
            ELSE c
      c2 == IF c1.eventSource # "null"
            THEN [c1 EXCEPT !.eventSource = "null"]
            ELSE c1
      c3 == setStatus(c2, "disconnected")
  IN  [c3 EXCEPT !.reconnectAttempts = 0]

\* connect without its test of this.eventSource.
connect_NoGuard(c) ==
  IF ~esSupported
  THEN setStatus(c, "error")
  ELSE [setStatus(c, "connecting") EXCEPT !.eventSource = "CONNECTING"]

\* connect (realtime.ts:44-120).  The relay URL is a constant, so the
\* EventSource constructor does not throw.
connect(c) ==
  IF c.eventSource # "null"
  THEN c
  ELSE IF ~esSupported
       THEN setStatus(c, "error")
       ELSE [setStatus(c, "connecting") EXCEPT !.eventSource = "CONNECTING"]

\* reconnect without its disconnect().
reconnect_NoDisconnect(c) ==
  connect([c EXCEPT !.reconnectAttempts = 0])

\* reconnect (realtime.ts:228-233)
reconnect(c) ==
  connect(disconnect([c EXCEPT !.reconnectAttempts = 0]))

\* The callback of the reconnection timer (realtime.ts:200-204).
reconnectTimerCallback(c) ==
  connect(disconnect([c EXCEPT !.reconnectAttempts = c.reconnectAttempts + 1]))

\* eventSource.onopen (realtime.ts:71-75)
onopen(c) ==
  [setStatus(c, "connected") EXCEPT !.reconnectAttempts = 0]

\* An onerror that does not look at readyState.
onerror_AnyState(c) == scheduleReconnect(setStatus(c, "error"))

\* eventSource.onerror (realtime.ts:88-102)
onerror(c) ==
  IF c.eventSource = "CLOSED"
  THEN scheduleReconnect(setStatus(c, "error"))
  ELSE c

\* The data of a stream event: text that is no JSON, the JSON null, a JSON
\* number or string, or a JSON object, of which the fields np, data.np and
\* station are told (0: absent or falsy, else the track it describes).
RawEvents ==
  [ kind : {"unparseable", "null", "primitive"}, np : {0}, dnp : {0}, station : {0} ]
    \cup [ kind : {"object"}, np : 0..MaxTrack, dnp : 0..MaxTrack,
           station : 0..MaxTrack ]

\* The events in one of the shapes handleMessage knows.
Recognised ==
  { e \in RawEvents : e.kind = "object" /\ (e.np # 0 \/ e.dnp # 0 \/ e.station # 0) }

\* handleMessage that takes an unknown shape for a failure of the stream.
handleMessage_UnknownIsError(c, data) ==
  IF data.kind = "object" /\ data.np # 0 THEN [c EXCEPT !.onUpdate = data.np]
  ELSE setStatus(c, "error")

\* handleMessage (realtime.ts:152-177).  Reading .np of null throws inside
\* the try block; an exception of onUpdate is caught there as well.
handleMessage(c, data) ==
  IF data.kind # "object" THEN c
  ELSE IF data.np # 0 THEN [c EXCEPT !.onUpdate = data.np]
  ELSE IF data.dnp # 0 THEN [c EXCEPT !.onUpdate = data.dnp]
  ELSE IF data.station # 0 THEN [c EXCEPT !.onUpdate = data.station]
  ELSE c

\* eventSource.onmessage (realtime.ts:78-85): JSON.parse throws on text that
\* is no JSON, and the catch block logs it.
onmessage(c, raw) ==
  IF raw.kind = "unparseable" THEN c ELSE handleMessage(c, raw)

(***************************************************************************)
(* The polling effect of useNowPlaying (useNowPlaying.ts:93-149).  It is   *)
(* run again whenever realtimeStatus changes: its cleanup clears the       *)
(* interval and turns the fetches in flight stale (mounted = false), then  *)
(* the new run decides shouldPoll.                                         *)
(***************************************************************************)
shouldPoll(s) ==
  \/ ~sseEnabled
  \/ s = "disconnected"
  \/ s = "error"

\* The effect state as a record [polling, pollInFlight, stalePolls].
Effect ==
  [ polling |-> polling, pollInFlight |-> pollInFlight,
    stalePolls |-> stalePolls ]

\* Stale fetches are counted up to MaxPolls; one more changes nothing, since
\* a stale fetch only returns.
effectCleanup(e) ==
  [ polling |-> FALSE, pollInFlight |-> 0,
    stalePolls |-> Min(MaxPolls, e.stalePolls + e.pollInFlight) ]

effectRun(e, s) ==
  IF shouldPoll(s)
  THEN [e EXCEPT !.polling = TRUE, !.pollInFlight = e.pollInFlight + 1]
  ELSE e

\* The re-render that follows a change of the hook's status.
rerender(e, old, new) ==
  IF old = new THEN e ELSE effectRun(effectCleanup(e), new)

\* Stores a client record and the hook state that follows from it.
Commit(c) ==
  /\ eventSource' = c.eventSource
  /\ status' = c.status
  /\ reconnectAttempts' = c.reconnectAttempts
  /\ reconnectTimeout' = c.reconnectTimeout
  /\ pendingTimers' = c.pendingTimers
  /\ lastDelay' = c.lastDelay
  /\ hookStatus' = c.hook
  /\ LET e == rerender(Effect, hookStatus, c.hook)
     IN  /\ polling' = e.polling
         /\ pollInFlight' = e.pollInFlight
         /\ stalePolls' = e.stalePolls

\* History of a call: its name, the client's state when it started, the
\* statuses it handed to onStatusChange, and whether onUpdate ran.
Call(op, c) ==
  [ op |-> op, from |-> status, stream |-> eventSource,
    timer |-> reconnectTimeout, notified |-> c.notified, updated |-> FALSE ]

PollBudget == pollInFlight < MaxPolls

hasClient == mounted = "mounted" /\ sseEnabled /\ esSupported

(***************************************************************************)
(* Actions of the streaming client and its hooks.                          *)
(***************************************************************************)
\* First commit of useNowPlaying: the effects of useAzuraCastRealtime run
\* (useAzuraCastRealtime.ts:95-132), then the polling effect with the status
\* of the first render ('disconnected'), then the re-render the effects asked for.
Mount ==
  /\ mounted = "init"
  /\ mounted' = "mounted"
  /\ LET c == IF ~sseEnabled THEN Client
              ELSE IF ~esSupported THEN [Client EXCEPT !.hook = "error"]
              ELSE connect(Client)
         e0 == effectRun(Effect, "disconnected")
         e == rerender(e0, "disconnected", c.hook)
     IN  /\ eventSource' = c.eventSource
         /\ status' = c.status
         /\ hookStatus' = c.hook
         /\ polling' = e.polling
         /\ pollInFlight' = e.pollInFlight
         /\ stalePolls' = e.stalePolls
         /\ lastCall' = Call("mount", c)
  /\ UNCHANGED << reconnectAttempts, reconnectTimeout, pendingTimers, lastDelay,
                  sseEnabled, esSupported, online, npData, failedReconnects,
                  autoAttempt >>

\* The stream reports it is open.
StreamOpen ==
  /\ hasClient
  /\ eventSource = "CONNECTING"
  /\ Commit(onopen([Client EXCEPT !.eventSource = "OPEN"]))
  /\ lastCall' = Call("onopen", onopen([Client EXCEPT !.eventSource = "OPEN"]))
  /\ failedReconnects' = 0
  /\ UNCHANGED << sseEnabled, esSupported, mounted, online, npData, autoAttempt >>

\* The stream fails and the browser retries by itself (readyState CONNECTING).
StreamErrorRetrying ==
  /\ hasClient
  /\ eventSource \in {"CONNECTING", "OPEN"}
  /\ Commit(onerror([Client EXCEPT !.eventSource = "CONNECTING"]))
  /\ lastCall' = Call("onerror", onerror([Client EXCEPT !.eventSource = "CONNECTING"]))
  /\ UNCHANGED << sseEnabled, esSupported, mounted, online, npData,
                  failedReconnects, autoAttempt >>

\* The stream fails for good (readyState CLOSED).  The failure of an
\* automatic attempt that never opened adds to failedReconnects.
StreamErrorClosed ==
  /\ hasClient
  /\ eventSource \in {"CONNECTING", "OPEN"}
  /\ failedReconnects < MaxFailedReconnects
  /\ Commit(onerror([Client EXCEPT !.eventSource = "CLOSED"]))
  /\ lastCall' = Call("onerror", onerror([Client EXCEPT !.eventSource = "CLOSED"]))
  /\ failedReconnects' =
       IF status = "connecting" /\ autoAttempt
       THEN failedReconnects + 1 ELSE failedReconnects
  /\ UNCHANGED << sseEnabled, esSupported, mounted, online, npData, autoAttempt >>

\* A reconnection timer fires: the one this.reconnectTimeout names, or one
\* whose handle was overwritten.
ReconnectTimerFire ==
  /\ hasClient
  /\ pendingTimers > 0
  /\ \E named \in BOOLEAN :
       /\ named => reconnectTimeout = "pending"
       /\ ~named => pendingTimers > (IF reconnectTimeout = "pending" THEN 1 ELSE 0)
       /\ Commit(reconnectTimerCallback(
              [Client EXCEPT !.pendingTimers = pendingTimers - 1,
                             !.reconnectTimeout =
                                IF named THEN "fired" ELSE reconnectTimeout]))
       /\ lastCall' = Call("timer", reconnectTimerCallback(
              [Client EXCEPT !.pendingTimers = pendingTimers - 1,
                             !.reconnectTimeout =
                                IF named THEN "fired" ELSE reconnectTimeout]))
  /\ autoAttempt' = TRUE
  /\ UNCHANGED << sseEnabled, esSupported, mounted, online, npData,
                  failedReconnects >>

\* reconnect() of the hook (useAzuraCastRealtime.ts:88-90).
ManualReconnect ==
  /\ hasClient
  /\ Commit(reconnect(Client))
  /\ lastCall' = Call("reconnect", reconnect(Client))
  /\ failedReconnects' = 0
  /\ autoAttempt' = FALSE
  /\ UNCHANGED << sseEnabled, esSupported, mounted, online, npData >>

\* disconnect() of the hook (useAzuraCastRealtime.ts:81-83).
ManualDisconnect ==
  /\ hasClient
  /\ Commit(disconnect(Client))
  /\ lastCall' = Call("disconnect", disconnect(Client))
  /\ failedReconnects' = 0
  /\ autoAttempt' = FALSE
  /\ UNCHANGED << sseEnabled, esSupported, mounted, online, npData >>

\* The page becomes visible (useAzuraCastRealtime.ts:140-151).
PageVisible ==
  /\ hasClient
  /\ status = "disconnected"
  /\ Commit(connect(Client))
  /\ lastCall' = Call("connect", connect(Client))
  /\ autoAttempt' = FALSE
  /\ UNCHANGED << sseEnabled, esSupported, mounted, online, npData,
                  failedReconnects >>

\* connect() of the client (realtime.ts:44-120), called by any holder of
\* the object in any state.
ClientConnect ==
  /\ hasClient
  /\ Commit(connect(Client))
  /\ lastCall' = Call("connect", connect(Client))
  /\ autoAttempt' = IF eventSource = "null" THEN FALSE ELSE autoAttempt
  /\ UNCHANGED << sseEnabled, esSupported, mounted, online, npData,
                  failedReconnects >>

\* window 'offline' (useAzuraCastRealtime.ts:171-174): only the hook's state
\* is set; the client is not told.
NetworkOffline ==
  /\ mounted = "mounted" /\ sseEnabled
  /\ online
  /\ online' = FALSE
  /\ Commit([Client EXCEPT !.hook = "disconnected"])
  /\ lastCall' = Call("offline", Client)
  /\ UNCHANGED << sseEnabled, esSupported, mounted, npData, failedReconnects,
                  autoAttempt >>

\* window 'online' (useAzuraCastRealtime.ts:166-169).
NetworkOnline ==
  /\ mounted = "mounted" /\ sseEnabled
  /\ ~online
  /\ online' = TRUE
  /\ IF esSupported
     THEN /\ Commit(reconnect(Client))
          /\ lastCall' = Call("reconnect", reconnect(Client))
          /\ failedReconnects' = 0
          /\ autoAttempt' = FALSE
     ELSE /\ Commit(Client)
          /\ lastCall' = Call("online", Client)
          /\ UNCHANGED << failedReconnects, autoAttempt >>
  /\ UNCHANGED << sseEnabled, esSupported, mounted, npData >>

\* A stream event reaches onmessage; when onUpdate is called,
\* handleRealtimeUpdate (useNowPlaying.ts:73-83) stores the track unless it
\* fails (fails = TRUE).
StreamEvent(raw, fails) ==
  /\ hasClient
  /\ eventSource = "OPEN"
  /\ online
  /\ LET c == onmessage(Client, raw)
     IN  /\ Commit(c)
         /\ npData' = IF c.onUpdate = 0 \/ fails THEN npData ELSE c.onUpdate
         /\ lastCall' = [Call("onmessage", c) EXCEPT
                           !.updated = (c.onUpdate # 0 /\ ~fails)]
  /\ UNCHANGED << sseEnabled, esSupported, mounted, online, failedReconnects,
                  autoAttempt >>

\* A stream event in a recognised shape.
StreamUpdate == \E raw \in Recognised : StreamEvent(raw, FALSE)

\* A stream event in a recognised shape whose onUpdate fails.
StreamUpdateFails == \E raw \in Recognised : StreamEvent(raw, TRUE)

\* A malformed stream event.
StreamMalformed == \E raw \in RawEvents \ Recognised : StreamEvent(raw, FALSE)

\* The polling interval fires (useNowPlaying.ts:138).
PollTick ==
  /\ mounted = "mounted"
  /\ polling
  /\ PollBudget
  /\ pollInFlight' = pollInFlight + 1
  /\ UNCHANGED << eventSource, status, reconnectAttempts, reconnectTimeout,
                  pendingTimers, lastDelay, sseEnabled, esSupported, mounted,
                  hookStatus, polling, stalePolls, online, npData,
                  failedReconnects, autoAttempt, lastCall >>

\* A fetch of the current effect resolves (useNowPlaying.ts:97-123): with a
\* snapshot (t in Tracks), which needs the network, or with null / an
\* exception (t = 0).
PollResolve ==
  /\ pollInFlight > 0
  /\ pollInFlight' = pollInFlight - 1
  /\ \E t \in {0} \cup (IF online THEN Tracks ELSE {}) :
        npData' = IF t = 0 THEN npData ELSE t
  /\ UNCHANGED << eventSource, status, reconnectAttempts, reconnectTimeout,
                  pendingTimers, lastDelay, sseEnabled, esSupported, mounted,
                  hookStatus, polling, stalePolls, online,
                  failedReconnects, autoAttempt, lastCall >>

\* A fetch whose effect was cleaned up resolves: `if (!mounted) return`.
StalePollResolve ==
  /\ stalePolls > 0
  /\ stalePolls' = stalePolls - 1
  /\ UNCHANGED << eventSource, status, reconnectAttempts, reconnectTimeout,
                  pendingTimers, lastDelay, sseEnabled, esSupported, mounted,
                  hookStatus, polling, pollInFlight, online, npData,
                  failedReconnects, autoAttempt, lastCall >>

\* The component is torn down: cleanup of the connection effect
\* (useAzuraCastRealtime.ts:127-131) and of the polling effect.
Unmount ==
  /\ mounted = "mounted"
  /\ mounted' = "unmounted"
  /\ LET c == IF sseEnabled /\ esSupported THEN disconnect(Client) ELSE Client
         e == effectCleanup(Effect)
     IN  /\ eventSource' = c.eventSource
         /\ status' = c.status
         /\ reconnectAttempts' = c.reconnectAttempts
         /\ reconnectTimeout' = c.reconnectTimeout
         /\ pendingTimers' = c.pendingTimers
         /\ lastDelay' = c.lastDelay
         /\ polling' = e.polling
         /\ pollInFlight' = e.pollInFlight
         /\ stalePolls' = e.stalePolls
         /\ lastCall' = Call("unmount", c)
  /\ UNCHANGED << sseEnabled, esSupported, hookStatus, online, npData,
                  failedReconnects, autoAttempt >>

InitSSE(enabled, supported) ==
  /\ eventSource = "null"
  /\ status = "disconnected"
  /\ reconnectAttempts = 0
  /\ reconnectTimeout = "null"
  /\ pendingTimers = 0
  /\ lastDelay = 0
  /\ sseEnabled \in enabled
  /\ esSupported \in supported
  /\ mounted = "init"
  /\ hookStatus = "disconnected"
  /\ polling = FALSE
  /\ pollInFlight = 0
  /\ stalePolls = 0
  /\ online = TRUE
  /\ npData = 0
  /\ failedReconnects = 0
  /\ autoAttempt = FALSE
  /\ lastCall = [ op |-> "none", from |-> "disconnected", stream |-> "null",
                  timer |-> "null", notified |-> << >>, updated |-> FALSE ]

NextSSE ==
  \/ Mount /\ UNCHANGED << chatVars, reqVars, chanVars, hookVars >>
  \/ StreamOpen /\ UNCHANGED << chatVars, reqVars, chanVars, hookVars >>
  \/ StreamErrorRetrying /\ UNCHANGED << chatVars, reqVars, chanVars, hookVars >>
  \/ StreamErrorClosed /\ UNCHANGED << chatVars, reqVars, chanVars, hookVars >>
  \/ ReconnectTimerFire /\ UNCHANGED << chatVars, reqVars, chanVars, hookVars >>
  \/ ManualReconnect /\ UNCHANGED << chatVars, reqVars, chanVars, hookVars >>
  \/ ManualDisconnect /\ UNCHANGED << chatVars, reqVars, chanVars, hookVars >>
  \/ PageVisible /\ UNCHANGED << chatVars, reqVars, chanVars, hookVars >>
  \/ NetworkOffline /\ UNCHANGED << chatVars, reqVars, chanVars, hookVars >>
  \/ NetworkOnline /\ UNCHANGED << chatVars, reqVars, chanVars, hookVars >>
  \/ StreamUpdate /\ UNCHANGED << chatVars, reqVars, chanVars, hookVars >>
  \/ StreamUpdateFails /\ UNCHANGED << chatVars, reqVars, chanVars, hookVars >>
  \/ StreamMalformed /\ UNCHANGED << chatVars, reqVars, chanVars, hookVars >>
  \/ PollTick /\ UNCHANGED << chatVars, reqVars, chanVars, hookVars >>
  \/ PollResolve /\ UNCHANGED << chatVars, reqVars, chanVars, hookVars >>
  \/ StalePollResolve /\ UNCHANGED << chatVars, reqVars, chanVars, hookVars >>
  \/ Unmount /\ UNCHANGED << chatVars, reqVars, chanVars, hookVars >>

\* The client used through its whole public interface.
NextClient ==
  \/ NextSSE
  \/ ClientConnect /\ UNCHANGED << chatVars, reqVars, chanVars, hookVars >>

(***************************************************************************)
(* Shared helpers.                                                         *)
(***************************************************************************)
\* The profile of useAuth for each client (AuthContext.tsx:48-91, 100-130).
Profile(c) == profiles[c]

\* Two users: client 1 is a registered user, client 2 an anonymous one (its
\* id is not stable; it is known by username).
ProfilesDistinct ==
  profiles = [c \in Clients |-> [ id |-> c, username |-> c, is_anonymous |-> (c = 2) ]]

\* One user with two tabs: both read anonymous_user_id and anonymous_username
\* from the same localStorage (AuthContext.tsx:50-67), or both restore the
\* same session.
ProfilesShared ==
  \E anon \in BOOLEAN :
     profiles = [c \in Clients |-> [ id |-> 1, username |-> 1, is_anonymous |-> anon ]]

\* An identity is "optimistic-<n>" (opt = TRUE) or a server-assigned id.
OptId(n) == [ opt |-> TRUE, n |-> n ]
SrvId(n) == [ opt |-> FALSE, n |-> n ]

RECURSIVE MapSeq(_, _)
\* Array.prototype.map: Op is applied to every element, the order is kept.
MapSeq(Op(_), q) ==
  IF q = << >> THEN << >> ELSE << Op(Head(q)) >> \o MapSeq(Op, Tail(q))

\* Array.prototype.filter / some
FilterSeq(q, Test(_)) == SelectSeq(q, Test)
Some(q, Test(_)) == \E i \in 1..Len(q) : Test(q[i])
CountSeq(q, Test(_)) == Cardinality({ i \in 1..Len(q) : Test(q[i]) })

\* The values Date.now() can return next: time does not run backwards.
Now == clock..MaxClock

(***************************************************************************)
(* useChat (src/unnamed/part_003).                                         *)
(***************************************************************************)
\* The optimistic message of sendMessage (part_003:213-229).
optimisticMessage(c, content, now) ==
  [ id |-> OptId(now),
    user_id |-> IF Profile(c).is_anonymous THEN 0 ELSE Profile(c).id,
    anon |-> IF Profile(c).is_anonymous THEN Profile(c).username ELSE 0,
    content |-> content, created_at |-> now,
    optimistic |-> TRUE, error |-> FALSE ]

\* The row the storage returns for messageData (part_003:235-252).
messageRow(c, content) ==
  [ id |-> SrvId(Len(dbMessages) + 1),
    user_id |-> IF Profile(c).is_anonymous THEN 0 ELSE Profile(c).id,
    anon |-> IF Profile(c).is_anonymous THEN Profile(c).username ELSE 0,
    content |-> content, created_at |-> clock,
    optimistic |-> FALSE, error |-> FALSE ]

\* isOwnMessage of handleNewMessage (part_003:121-123).
isOwnMessage(c, m) ==
  IF Profile(c).is_anonymous
  THEN m.anon = Profile(c).username
  ELSE m.user_id = Profile(c).id

\* A handler that appends whatever arrives.
handleNewMessage_NoOwnCheck(c, list, m) == Append(list, m)

\* handleNewMessage (part_003:116-132): the list of c after payload m.
handleNewMessage(c, list, m) ==
  IF isOwnMessage(c, m) THEN list ELSE Append(list, m)

\* The marking of a rejected write (part_003:256-260).
markMessageError(list, optId) ==
  LET mark(msg) == IF msg.id = optId THEN [msg EXCEPT !.error = TRUE] ELSE msg
  IN  MapSeq(mark, list)

\* The replacement of the placeholder (part_003:278-282).
replaceMessage(list, optId, row) ==
  LET swap(msg) == IF msg.id = optId THEN row ELSE msg
  IN  MapSeq(swap, list)

\* The sendMessage calls made so far, over all clients.
SendsMade == Len(sends[1]) + Len(sends[2])

\* sendMessage up to its first await (part_003:183-252).
SendMessage(c, content, now) ==
  /\ SendsMade < MaxSends
  /\ clock' = now
  /\ LET m == optimisticMessage(c, content, now)
     IN  /\ messages' = [messages EXCEPT ![c] = Append(@, m)]
         /\ sends' = [sends EXCEPT ![c] =
                Append(@, [ optId |-> m.id, content |-> content,
                            pc |-> "insert", row |-> m ])]
  /\ UNCHANGED << dbMessages, chatNet, chatLoad >>

\* The insert of call k of client c is stored and resolves with the row
\* (part_003:248-275): the row is sent on 'chat-room', to every subscriber
\* of the topic, the sender included.
InsertMessageOk(c, k) ==
  /\ k \in 1..Len(sends[c])
  /\ sends[c][k].pc = "insert"
  /\ LET row == messageRow(c, sends[c][k].content)
     IN  /\ dbMessages' = Append(dbMessages, row)
         /\ chatNet' = [d \in Clients |-> chatNet[d] \cup {row}]
         /\ sends' = [sends EXCEPT ![c][k].pc = "broadcast", ![c][k].row = row]
  /\ UNCHANGED << clock, messages, chatLoad >>

\* The insert resolves with an error (part_003:254-262, 285-291).
InsertMessageFail(c, k) ==
  /\ k \in 1..Len(sends[c])
  /\ sends[c][k].pc = "insert"
  /\ messages' = [messages EXCEPT ![c] = markMessageError(@, sends[c][k].optId)]
  /\ sends' = [sends EXCEPT ![c][k].pc = "failed"]
  /\ UNCHANGED << clock, dbMessages, chatNet, chatLoad >>

\* The broadcast resolved: the placeholder is replaced (part_003:277-284).
ReplaceMessage(c, k) ==
  /\ k \in 1..Len(sends[c])
  /\ sends[c][k].pc = "broadcast"
  /\ messages' = [messages EXCEPT ![c] =
                     replaceMessage(@, sends[c][k].optId, sends[c][k].row)]
  /\ sends' = [sends EXCEPT ![c][k].pc = "done"]
  /\ UNCHANGED << clock, dbMessages, chatNet, chatLoad >>

\* A 'new-message' payload reaches client c (useSupabaseRealtime.ts:139-142).
DeliverNewMessage(c, m) ==
  /\ m \in chatNet[c]
  /\ chatNet' = [chatNet EXCEPT ![c] = @ \ {m}]
  /\ messages' = [messages EXCEPT ![c] = handleNewMessage(c, @, m)]
  /\ UNCHANGED << clock, dbMessages, sends, chatLoad >>

\* loadMessages: the select runs at the storage (part_003:72-76); on an
\* error the list is set to [] (part_003:94-100).
LoadMessagesQuery(c) ==
  /\ chatLoad[c].pc = "query"
  /\ \E ok \in BOOLEAN :
       chatLoad' = [chatLoad EXCEPT ![c] =
          [ pc |-> "fetched", data |-> IF ok THEN dbMessages ELSE << >> ]]
  /\ UNCHANGED << clock, dbMessages, messages, sends, chatNet >>

\* loadMessages after its await (part_003:78-105).
LoadMessagesApply(c) ==
  /\ chatLoad[c].pc = "fetched"
  /\ messages' = [messages EXCEPT ![c] = chatLoad[c].data]
  /\ chatLoad' = [chatLoad EXCEPT ![c] = [ pc |-> "done", data |-> << >> ]]
  /\ UNCHANGED << clock, dbMessages, sends, chatNet >>

(***************************************************************************)
(* useSongRequests (src/src/hooks/useSongRequests.ts).                     *)
(***************************************************************************)
\* A comparator without the creation time.
compareRequests_NoTime(a, b) ==
  IF a.status = "playing" /\ b.status # "playing" THEN -1
  ELSE IF b.status = "playing" /\ a.status # "playing" THEN 1
  ELSE b.vote_count - a.vote_count

\* The comparator of sortRequests (useSongRequests.ts:459-471): < 0 when a
\* sorts before b.
compareRequests(a, b) ==
  IF a.status = "playing" /\ b.status # "playing" THEN -1
  ELSE IF b.status = "playing" /\ a.status # "playing" THEN 1
  ELSE IF b.vote_count # a.vote_count THEN b.vote_count - a.vote_count
  ELSE a.created_at - b.created_at

\* The comparator of loadRequests (useSongRequests.ts:91-96).
compareLoaded(a, b) ==
  IF b.vote_count # a.vote_count THEN b.vote_count - a.vote_count
  ELSE a.created_at - b.created_at

\* Array.prototype.sort is stable: x goes before the first element it sorts
\* strictly before.
InsertStable(cmp(_, _), sorted, x) ==
  LET before == { i \in 1..Len(sorted) : cmp(x, sorted[i]) < 0 }
      pos == IF before = {} THEN Len(sorted) + 1
             ELSE CHOOSE i \in before : \A j \in before : i <= j
  IN  SubSeq(sorted, 1, pos - 1) \o << x >> \o SubSeq(sorted, pos, Len(sorted))

RECURSIVE SortFrom(_, _, _)
SortFrom(cmp(_, _), sorted, rest) ==
  IF rest = << >> THEN sorted
  ELSE SortFrom(cmp, InsertStable(cmp, sorted, Head(rest)), Tail(rest))

\* sortRequests (useSongRequests.ts:458-472)
sortRequests(list) == SortFrom(compareRequests, << >>, list)

\* A song_requests row with the fields the hook adds.
withVotes(row, votes, voted) ==
  [ id |-> row.id, user_id |-> row.user_id, anon |-> row.anon,
    song_name |-> row.song_name, artist |-> row.artist,
    status |-> row.status, created_at |-> row.created_at,
    vote_count |-> votes, hasUserVoted |-> voted,
    optimistic |-> FALSE, error |-> FALSE ]

\* The votes stored for request id r, and those of client c among them.
VotesFor(votes, r) == { v \in votes : v[1] = r }
VotesOf(votes, r, c) == { v \in votes : v[1] = r /\ v[2] = c }

\* loadRequests after its two selects (useSongRequests.ts:61-100): the list
\* and the vote set it stores.
loadedRequests(c, requestsData, votesData) ==
  LET entry(row) == withVotes(row, Cardinality(VotesFor(votesData, row.id)),
                              VotesOf(votesData, row.id, c) # {})
  IN  SortFrom(compareLoaded, << >>, MapSeq(entry, requestsData))

loadedUserVotes(c, votesData) == { v[1] : v \in { w \in votesData : w[2] = c } }

\* The rows the first select returns: status pending or playing
\* (useSongRequests.ts:45-50); every row of the model is younger than 15 min.
activeRequests == SelectSeq(dbRequests, LAMBDA r : r.status \in {"pending", "playing"})

\* handleNewRequest (useSongRequests.ts:123-145)
handleNewRequest(list, newRequest) ==
  IF Some(list, LAMBDA r : r.id = newRequest.id)
  THEN LET merge(r) == IF r.id = newRequest.id
                       THEN withVotes(newRequest, r.vote_count, r.hasUserVoted)
                       ELSE r
       IN  MapSeq(merge, list)
  ELSE sortRequests(Append(list, withVotes(newRequest, 0, FALSE)))

\* handleVoteChange (useSongRequests.ts:147-157)
handleVoteChange(list, requestId, voteCount) ==
  LET set(r) == IF r.id = requestId THEN [r EXCEPT !.vote_count = voteCount] ELSE r
  IN  sortRequests(MapSeq(set, list))

\* handleStatusChange (useSongRequests.ts:159-173)
handleStatusChange(list, requestId, st) ==
  IF st = "played"
  THEN SelectSeq(list, LAMBDA r : r.id # requestId)
  ELSE LET set(r) == IF r.id = requestId THEN [r EXCEPT !.status = st] ELSE r
       IN  MapSeq(set, list)

\* The optimistic update of toggleVote (useSongRequests.ts:339-351).
toggleOptimistic(list, requestId, isVoted) ==
  LET set(r) == IF r.id = requestId
                THEN [r EXCEPT !.vote_count = IF isVoted THEN @ - 1 ELSE @ + 1,
                               !.hasUserVoted = ~isVoted]
                ELSE r
  IN  sortRequests(MapSeq(set, list))

\* The rollback of toggleVote (useSongRequests.ts:414-426).
toggleRollback(list, requestId, isVoted) ==
  LET set(r) == IF r.id = requestId
                THEN [r EXCEPT !.vote_count = IF isVoted THEN @ + 1 ELSE @ - 1,
                               !.hasUserVoted = isVoted]
                ELSE r
  IN  sortRequests(MapSeq(set, list))

\* The set updates of toggleVote (useSongRequests.ts:353-361, 428-436).
votesAfterToggle(set, requestId, isVoted) ==
  IF isVoted THEN set \ {requestId} ELSE set \cup {requestId}

votesAfterRollback(set, requestId, isVoted) ==
  IF isVoted THEN set \cup {requestId} ELSE set \ {requestId}

\* The optimistic request of addRequest (useSongRequests.ts:242-258).
optimisticRequest(c, song, artist, now) ==
  [ id |-> OptId(now),
    user_id |-> IF Profile(c).is_anonymous THEN 0 ELSE Profile(c).id,
    anon |-> IF Profile(c).is_anonymous THEN Profile(c).username ELSE 0,
    song_name |-> song, artist |-> artist, status |-> "pending",
    created_at |-> now, vote_count |-> 0, hasUserVoted |-> FALSE,
    optimistic |-> TRUE, error |-> FALSE ]

\* The row the storage returns for requestData (useSongRequests.ts:264-285).
requestRow(c, song, artist) ==
  [ id |-> SrvId(Len(dbRequests) + 1),
    user_id |-> IF Profile(c).is_anonymous THEN 0 ELSE Profile(c).id,
    anon |-> IF Profile(c).is_anonymous THEN Profile(c).username ELSE 0,
    song_name |-> song, artist |-> artist, status |-> "pending",
    created_at |-> clock ]

\* The marking of a rejected insert (useSongRequests.ts:289-293).
markRequestError(list, optId) ==
  LET mark(r) == IF r.id = optId THEN [r EXCEPT !.error = TRUE] ELSE r
  IN  MapSeq(mark, list)

\* The replacement of the placeholder (useSongRequests.ts:301-309).
replaceRequest(list, optId, row) ==
  LET swap(r) == IF r.id = optId THEN withVotes(row, 0, FALSE) ELSE r
  IN  sortRequests(MapSeq(swap, list))

\* A 'song-requests' event goes to every subscriber of the topic.
Broadcast(net, ev) == [d \in Clients |-> net[d] \cup {ev}]

AddsMade == Len(adds[1]) + Len(adds[2])
TogglesMade == Len(toggles[1]) + Len(toggles[2])

\* addRequest up to its first await (useSongRequests.ts:203-285).
AddRequest(c, song, artist, now) ==
  /\ AddsMade < MaxAdds
  /\ clock' = now
  /\ LET r == optimisticRequest(c, song, artist, now)
     IN  /\ requests' = [requests EXCEPT ![c] = sortRequests(Append(@, r))]
         /\ adds' = [adds EXCEPT ![c] =
               Append(@, [ optId |-> r.id, song_name |-> song, artist |-> artist,
                           pc |-> "insert", row |-> r ])]
  /\ UNCHANGED << dbMessages, messages, sends, chatNet, chatLoad,
                  dbRequests, dbVotes, userVotes, toggles, reqNet, reqLoad,
                  statusChanges >>

\* The insert of call k is stored and resolves with the row, which is sent
\* as 'new-request' (useSongRequests.ts:281-298).
InsertRequestOk(c, k) ==
  /\ k \in 1..Len(adds[c])
  /\ adds[c][k].pc = "insert"
  /\ LET row == requestRow(c, adds[c][k].song_name, adds[c][k].artist)
     IN  /\ dbRequests' = Append(dbRequests, row)
         /\ reqNet' = Broadcast(reqNet, [ event |-> "new-request", row |-> row ])
         /\ adds' = [adds EXCEPT ![c][k].pc = "broadcast", ![c][k].row = row]
  /\ UNCHANGED << clock, dbMessages, messages, sends, chatNet, chatLoad,
                  dbVotes, requests, userVotes, toggles, reqLoad, statusChanges >>

\* The insert resolves with an error (useSongRequests.ts:287-295, 312-318).
InsertRequestFail(c, k) ==
  /\ k \in 1..Len(adds[c])
  /\ adds[c][k].pc = "insert"
  /\ requests' = [requests EXCEPT ![c] = markRequestError(@, adds[c][k].optId)]
  /\ adds' = [adds EXCEPT ![c][k].pc = "failed"]
  /\ UNCHANGED << clock, dbMessages, messages, sends, chatNet, chatLoad,
                  dbRequests, dbVotes, userVotes, toggles, reqNet, reqLoad,
                  statusChanges >>

\* The broadcast resolved: the placeholder is replaced (useSongRequests.ts:300-311).
ReplaceRequest(c, k) ==
  /\ k \in 1..Len(adds[c])
  /\ adds[c][k].pc = "broadcast"
  /\ requests' = [requests EXCEPT ![c] =
                    replaceRequest(@, adds[c][k].optId, adds[c][k].row)]
  /\ adds' = [adds EXCEPT ![c][k].pc = "done"]
  /\ UNCHANGED << clock, dbMessages, messages, sends, chatNet, chatLoad,
                  dbRequests, dbVotes, userVotes, toggles, reqNet, reqLoad,
                  statusChanges >>

\* The requests of c's list a user can vote on: those the storage knows.
Votable(c) == { requests[c][i].id : i \in { j \in 1..Len(requests[c]) :
                                             ~requests[c][j].id.opt } }

\* What the list shows for request id r: << vote_count, hasUserVoted >>
\* (history kept with each toggleVote call, << -1, FALSE >> when absent).
shownVote(list, r) ==
  IF Some(list, LAMBDA e : e.id = r)
  THEN LET e == list[CHOOSE i \in 1..Len(list) : list[i].id = r]
       IN  << e.vote_count, e.hasUserVoted >>
  ELSE << -1, FALSE >>

\* toggleVote up to its first await (useSongRequests.ts:326-395).  isVoted
\* is read from the userVotes of the latest render.
ToggleVote(c, requestId) ==
  /\ TogglesMade < MaxToggles
  /\ requestId \in Votable(c)
  /\ LET isVoted == requestId \in userVotes[c]
     IN  /\ requests' = [requests EXCEPT ![c] = toggleOptimistic(@, requestId, isVoted)]
         /\ userVotes' = [userVotes EXCEPT ![c] = votesAfterToggle(@, requestId, isVoted)]
         /\ toggles' = [toggles EXCEPT ![c] =
               Append(@, [ requestId |-> requestId, isVoted |-> isVoted,
                           pc |-> "write",
                           before |-> shownVote(requests[c], requestId) ])]
  /\ UNCHANGED << clock, dbMessages, messages, sends, chatNet, chatLoad,
                  dbRequests, dbVotes, adds, reqNet, reqLoad, statusChanges >>

\* The unique_vote constraint (20260211_create_song_requests.sql:35): it
\* binds rows with a user_id, so the votes of registered users.
violatesUniqueVote(c, requestId) ==
  ~Profile(c).is_anonymous /\ VotesOf(dbVotes, requestId, c) # {}

newVote(c, requestId) ==
  << requestId, c, Cardinality(VotesOf(dbVotes, requestId, c)) + 1 >>

\* The vote write of call k is stored and resolves (useSongRequests.ts:363-395).
VoteWriteOk(c, k) ==
  /\ k \in 1..Len(toggles[c])
  /\ toggles[c][k].pc = "write"
  /\ LET t == toggles[c][k]
     IN  /\ t.isVoted \/ ~violatesUniqueVote(c, t.requestId)
         /\ dbVotes' = IF t.isVoted
                       THEN dbVotes \ VotesOf(dbVotes, t.requestId, c)
                       ELSE dbVotes \cup {newVote(c, t.requestId)}
  /\ toggles' = [toggles EXCEPT ![c][k].pc = "count"]
  /\ UNCHANGED << clock, dbMessages, messages, sends, chatNet, chatLoad,
                  dbRequests, requests, userVotes, adds, reqNet, reqLoad,
                  statusChanges >>

\* The vote write resolves with an error (the network, or the storage as in
\* VoteWriteRejected): the catch block rolls back (useSongRequests.ts:410-440).
VoteWriteFail(c, k) ==
  /\ k \in 1..Len(toggles[c])
  /\ toggles[c][k].pc = "write"
  /\ LET t == toggles[c][k]
     IN  /\ requests' = [requests EXCEPT ![c] =
                            toggleRollback(@, t.requestId, t.isVoted)]
         /\ userVotes' = [userVotes EXCEPT ![c] =
                            votesAfterRollback(@, t.requestId, t.isVoted)]
  /\ toggles' = [toggles EXCEPT ![c][k].pc = "failed"]
  /\ UNCHANGED << clock, dbMessages, messages, sends, chatNet, chatLoad,
                  dbRequests, dbVotes, adds, reqNet, reqLoad, statusChanges >>

\* The insert of call k is rejected by the unique_vote constraint
\* (useSongRequests.ts:381-395).
VoteWriteRejected(c, k) ==
  /\ k \in 1..Len(toggles[c])
  /\ ~toggles[c][k].isVoted
  /\ violatesUniqueVote(c, toggles[c][k].requestId)
  /\ VoteWriteFail(c, k)

\* The count query resolves and the count is sent as 'vote-change'
\* (useSongRequests.ts:397-409).
VoteCountAndBroadcast(c, k) ==
  /\ k \in 1..Len(toggles[c])
  /\ toggles[c][k].pc = "count"
  /\ reqNet' = Broadcast(reqNet,
        [ event |-> "vote-change", requestId |-> toggles[c][k].requestId,
          voteCount |-> Cardinality(VotesFor(dbVotes, toggles[c][k].requestId)) ])
  /\ toggles' = [toggles EXCEPT ![c][k].pc = "done"]
  /\ UNCHANGED << clock, dbMessages, messages, sends, chatNet, chatLoad,
                  dbRequests, dbVotes, requests, userVotes, adds, reqLoad,
                  statusChanges >>

\* The voteCount of the payload: `count || 0` (useSongRequests.ts:404-407);
\* -1 stands for the null the count query returns when it fails.
voteCountPayload(count) == IF count = -1 THEN 0 ELSE count

\* The list of c after event ev (useSongRequests.ts:176-192).
applyEvent(list, ev) ==
  IF ev.event = "new-request" THEN handleNewRequest(list, ev.row)
  ELSE IF ev.event = "vote-change"
       THEN handleVoteChange(list, ev.requestId, ev.voteCount)
       ELSE handleStatusChange(list, ev.requestId, ev.status)

\* An event of 'song-requests' reaches client c.
DeliverRequestEvent(c, ev) ==
  /\ ev \in reqNet[c]
  /\ reqNet' = [reqNet EXCEPT ![c] = @ \ {ev}]
  /\ requests' = [requests EXCEPT ![c] = applyEvent(@, ev)]
  /\ UNCHANGED << clock, dbMessages, messages, sends, chatNet, chatLoad,
                  dbRequests, dbVotes, userVotes, adds, toggles, reqLoad,
                  statusChanges >>

\* The station's operator moves request number n to status st and sends
\* 'status-change'; the hook only receives this event.
StatusChange(n, st) ==
  /\ statusChanges < MaxStatusChanges
  /\ n \in 1..Len(dbRequests)
  /\ dbRequests[n].status # st
  /\ dbRequests' = [dbRequests EXCEPT ![n].status = st]
  /\ reqNet' = Broadcast(reqNet,
        [ event |-> "status-change", requestId |-> dbRequests[n].id, status |-> st ])
  /\ statusChanges' = statusChanges + 1
  /\ UNCHANGED << clock, dbMessages, messages, sends, chatNet, chatLoad,
                  dbVotes, requests, userVotes, adds, toggles, reqLoad >>

\* loadRequests: the select on song_requests runs (useSongRequests.ts:45-52).
LoadRequestsQuery(c) ==
  /\ reqLoad[c].pc = "requests"
  /\ reqLoad' = [reqLoad EXCEPT ![c] =
        [ pc |-> "votes", requestsData |-> activeRequests, votesData |-> {} ]]
  /\ UNCHANGED << clock, dbMessages, messages, sends, chatNet, chatLoad,
                  dbRequests, dbVotes, requests, userVotes, adds, toggles,
                  reqNet, statusChanges >>

\* loadRequests: the select on upvotes runs (useSongRequests.ts:55-59).
LoadVotesQuery(c) ==
  /\ reqLoad[c].pc = "votes"
  /\ reqLoad' = [reqLoad EXCEPT ![c].pc = "fetched", ![c].votesData = dbVotes]
  /\ UNCHANGED << clock, dbMessages, messages, sends, chatNet, chatLoad,
                  dbRequests, dbVotes, requests, userVotes, adds, toggles,
                  reqNet, statusChanges >>

\* loadRequests stores its result (useSongRequests.ts:61-101).
LoadRequestsApply(c) ==
  /\ reqLoad[c].pc = "fetched"
  /\ requests' = [requests EXCEPT ![c] =
        loadedRequests(c, reqLoad[c].requestsData, reqLoad[c].votesData)]
  /\ userVotes' = [userVotes EXCEPT ![c] = loadedUserVotes(c, reqLoad[c].votesData)]
  /\ reqLoad' = [reqLoad EXCEPT ![c] =
        [ pc |-> "done", requestsData |-> << >>, votesData |-> {} ]]
  /\ UNCHANGED << clock, dbMessages, messages, sends, chatNet, chatLoad,
                  dbRequests, dbVotes, adds, toggles, reqNet, statusChanges >>

\* A select of loadRequests fails: the catch block keeps the list
\* (useSongRequests.ts:102-112).
LoadRequestsFail(c) ==
  /\ reqLoad[c].pc \in {"requests", "votes"}
  /\ reqLoad' = [reqLoad EXCEPT ![c] =
        [ pc |-> "done", requestsData |-> << >>, votesData |-> {} ]]
  /\ UNCHANGED << clock, dbMessages, messages, sends, chatNet, chatLoad,
                  dbRequests, dbVotes, requests, userVotes, adds, toggles,
                  reqNet, statusChanges >>

LoadIdle == [ pc |-> "done", requestsData |-> << >>, votesData |-> {} ]

\* The rows song_requests holds when the hooks are mounted: one request of
\* the registered user and a younger one of the anonymous user.
SeedRequests ==
  << [ id |-> SrvId(1), user_id |-> 1, anon |-> 0, song_name |-> 1,
       artist |-> 1, status |-> "pending", created_at |-> -2 ],
     [ id |-> SrvId(2), user_id |-> 0, anon |-> 2, song_name |-> 2,
       artist |-> 2, status |-> "pending", created_at |-> -1 ] >>

\* The rows upvotes may hold then: none, or the registered user's vote on
\* the first request.
SeedVotes == { {}, { << SrvId(1), 1, 1 >> } }

\* The hooks in `loading` are being mounted (loadRequests in flight), the
\* others have loaded the table.
InitReqWith(votes, loading) ==
  /\ dbRequests = SeedRequests
  /\ dbVotes \in votes
  /\ requests = [c \in Clients |->
        IF c \in loading THEN << >> ELSE loadedRequests(c, SeedRequests, dbVotes)]
  /\ userVotes = [c \in Clients |->
        IF c \in loading THEN {} ELSE loadedUserVotes(c, dbVotes)]
  /\ adds = [c \in Clients |-> << >>]
  /\ toggles = [c \in Clients |-> << >>]
  /\ reqNet = [c \in Clients |-> {}]
  /\ reqLoad = [c \in Clients |->
        IF c \in loading THEN [LoadIdle EXCEPT !.pc = "requests"] ELSE LoadIdle]
  /\ statusChanges = 0

InitReq == InitReqWith(SeedVotes, {1})

Songs == 1..MaxContent

\* The steps of requesting: submits, loads, events and the operator.
NextReq ==
  \/ \E c \in Clients, x \in Songs, now \in Now : AddRequest(c, x, x, now)
        /\ UNCHANGED << sseVars, chanVars, hookVars >>
  \/ \E c \in Clients, k \in 1..MaxAdds : InsertRequestOk(c, k)
        /\ UNCHANGED << sseVars, chanVars, hookVars >>
  \/ \E c \in Clients, k \in 1..MaxAdds : InsertRequestFail(c, k)
        /\ UNCHANGED << sseVars, chanVars, hookVars >>
  \/ \E c \in Clients, k \in 1..MaxAdds : ReplaceRequest(c, k)
        /\ UNCHANGED << sseVars, chanVars, hookVars >>
  \/ \E c \in Clients : \E ev \in reqNet[c] : DeliverRequestEvent(c, ev)
        /\ UNCHANGED << sseVars, chanVars, hookVars >>
  \/ \E n \in 1..Len(dbRequests), st \in {"pending", "playing", "played"} :
        StatusChange(n, st)
        /\ UNCHANGED << sseVars, chanVars, hookVars >>
  \/ \E c \in Clients : LoadRequestsQuery(c)
        /\ UNCHANGED << sseVars, chanVars, hookVars >>
  \/ \E c \in Clients : LoadVotesQuery(c)
        /\ UNCHANGED << sseVars, chanVars, hookVars >>
  \/ \E c \in Clients : LoadRequestsApply(c)
        /\ UNCHANGED << sseVars, chanVars, hookVars >>
  \/ \E c \in Clients : LoadRequestsFail(c)
        /\ UNCHANGED << sseVars, chanVars, hookVars >>

\* The steps of voting: toggles, their writes, events and the operator.
NextVote ==
  \/ \E c \in Clients : \E r \in Votable(c) : ToggleVote(c, r)
        /\ UNCHANGED << sseVars, chanVars, hookVars >>
  \/ \E c \in Clients, k \in 1..MaxToggles : VoteWriteOk(c, k)
        /\ UNCHANGED << sseVars, chanVars, hookVars >>
  \/ \E c \in Clients, k \in 1..MaxToggles : VoteWriteFail(c, k)
        /\ UNCHANGED << sseVars, chanVars, hookVars >>
  \/ \E c \in Clients, k \in 1..MaxToggles : VoteCountAndBroadcast(c, k)
        /\ UNCHANGED << sseVars, chanVars, hookVars >>
  \/ \E c \in Clients : \E ev \in reqNet[c] : DeliverRequestEvent(c, ev)
        /\ UNCHANGED << sseVars, chanVars, hookVars >>
  \/ \E n \in 1..Len(dbRequests), st \in {"pending", "playing", "played"} :
        StatusChange(n, st)
        /\ UNCHANGED << sseVars, chanVars, hookVars >>

\* Each client votes once and every write succeeds.
NextTwoVoters ==
  \/ \E c \in Clients : \E r \in Votable(c) : toggles[c] = << >> /\ ToggleVote(c, r)
        /\ UNCHANGED << sseVars, chanVars, hookVars >>
  \/ \E c \in Clients, k \in 1..MaxToggles : VoteWriteOk(c, k)
        /\ UNCHANGED << sseVars, chanVars, hookVars >>
  \/ \E c \in Clients, k \in 1..MaxToggles : VoteCountAndBroadcast(c, k)
        /\ UNCHANGED << sseVars, chanVars, hookVars >>
  \/ \E c \in Clients : \E ev \in reqNet[c] : DeliverRequestEvent(c, ev)
        /\ UNCHANGED << sseVars, chanVars, hookVars >>

\* The registered user toggles, the storage accepts or rejects the writes,
\* and the other client receives the events.
NextDoubleToggle ==
  \/ \E r \in Votable(1) : ToggleVote(1, r)
        /\ UNCHANGED << sseVars, chanVars, hookVars >>
  \/ \E k \in 1..MaxToggles : VoteWriteOk(1, k)
        /\ UNCHANGED << sseVars, chanVars, hookVars >>
  \/ \E k \in 1..MaxToggles : VoteWriteRejected(1, k)
        /\ UNCHANGED << sseVars, chanVars, hookVars >>
  \/ \E k \in 1..MaxToggles : VoteCountAndBroadcast(1, k)
        /\ UNCHANGED << sseVars, chanVars, hookVars >>
  \/ \E ev \in reqNet[2] : DeliverRequestEvent(2, ev)
        /\ UNCHANGED << sseVars, chanVars, hookVars >>

\* Each client submits one request and receives the events.
NextReqEcho ==
  \/ \E c \in Clients, x \in Songs, now \in Now :
        adds[c] = << >> /\ AddRequest(c, x, x, now)
        /\ UNCHANGED << sseVars, chanVars, hookVars >>
  \/ \E c \in Clients, k \in 1..MaxAdds : InsertRequestOk(c, k)
        /\ UNCHANGED << sseVars, chanVars, hookVars >>
  \/ \E c \in Clients, k \in 1..MaxAdds : InsertRequestFail(c, k)
        /\ UNCHANGED << sseVars, chanVars, hookVars >>
  \/ \E c \in Clients, k \in 1..MaxAdds : ReplaceRequest(c, k)
        /\ UNCHANGED << sseVars, chanVars, hookVars >>
  \/ \E c \in Clients : \E ev \in reqNet[c] : DeliverRequestEvent(c, ev)
        /\ UNCHANGED << sseVars, chanVars, hookVars >>

(***************************************************************************)
(* useChat, the typing indicator (part_003:135-150, 299-314).  Time is     *)
(* counted in steps of one second; a timer runs when its delay has passed  *)
(* and before the clock moves on.  The 300 ms of the debounce timer are    *)
(* shorter than a step, so a pending debounce timer runs within the step.  *)
(***************************************************************************)
NoTimerRun == [ kind |-> "none", mounted |-> TRUE ]

\* No typing signal was sent and no timer is set.
TypingIdle ==
  /\ time = 0
  /\ chatMounted = [c \in Clients |-> TRUE]
  /\ typingUsers = [c \in Clients |-> << >>]
  /\ typingTimers = [c \in Clients |-> {}]
  /\ typingTimeoutRef = [c \in Clients |-> "null"]
  /\ typingNet = [c \in Clients |-> {}]
  /\ typingSent = 0
  /\ timerRuns = [c \in Clients |-> NoTimerRun]

\* sortRequests was not called.
SortIdle ==
  /\ sortInput = << >>
  /\ sortResult = << >>
  /\ sortCalls = 0

\* No client has now-playing data yet.
TracksIdle ==
  /\ nowPlaying = [c \in Clients |-> 0]
  /\ trackNet = [c \in Clients |-> {}]
  /\ trackFetches = 0
  /\ trackBroadcasts = 0

\* Two users, no typing signal, no call of sortRequests, no now-playing data.
HooksIdle == ProfilesDistinct /\ TypingIdle /\ SortIdle /\ TracksIdle

\* The payload of sendTypingIndicator (part_003:308-312); n numbers the
\* payloads (the transport hands every payload over as its own object).
typingPayload(c, n) ==
  [ userId |-> Profile(c).id, username |-> Profile(c).username,
    timestamp |-> time, n |-> n ]

\* The state update of handleTyping (part_003:139-142): the entry of the
\* identity is replaced by the payload, which goes to the end of the list.
\* Field at is the local time of the receipt.
addTyping(list, payload) ==
  LET other(u) == u.userId # payload.userId
  IN  Append(SelectSeq(list, other),
             [ userId |-> payload.userId, timestamp |-> payload.timestamp,
               n |-> payload.n, at |-> time ])

\* The callback of the timer of handleTyping (part_003:146-148).
expireTyping(list, userId) ==
  LET other(u) == u.userId # userId
  IN  SelectSeq(list, other)

\* sendTypingIndicator (part_003:299-314): a pending debounce timer is
\* cleared and a new one is set.
SendTypingIndicator(c) ==
  /\ chatMounted[c]
  /\ typingSent < MaxSignals
  /\ typingTimeoutRef' = [typingTimeoutRef EXCEPT ![c] = "pending"]
  /\ UNCHANGED << time, chatMounted, typingUsers, typingTimers, typingNet,
                  typingSent, timerRuns >>

\* The debounce timer runs (part_003:307-313): the payload goes to every
\* subscriber of 'chat-typing', the sender included.
DebounceFires(c) ==
  /\ typingTimeoutRef[c] = "pending"
  /\ typingTimeoutRef' = [typingTimeoutRef EXCEPT ![c] = "fired"]
  /\ typingSent' = typingSent + 1
  /\ typingNet' = [d \in Clients |->
                     typingNet[d] \cup {typingPayload(c, typingSent + 1)}]
  /\ timerRuns' = [timerRuns EXCEPT ![c] =
                     [ kind |-> "debounce", mounted |-> chatMounted[c] ]]
  /\ UNCHANGED << time, chatMounted, typingUsers, typingTimers >>

\* handleTyping (part_003:135-150) runs for a payload that reaches c.
HandleTyping(c, payload) ==
  /\ chatMounted[c]
  /\ payload \in typingNet[c]
  /\ typingNet' = [typingNet EXCEPT ![c] = @ \ {payload}]
  /\ IF payload.userId = Profile(c).id
     THEN UNCHANGED << typingUsers, typingTimers >>
     ELSE /\ typingUsers' = [typingUsers EXCEPT ![c] = addTyping(@, payload)]
          /\ typingTimers' = [typingTimers EXCEPT ![c] = @ \cup
                {[ userId |-> payload.userId, n |-> payload.n,
                   due |-> time + TYPING_TIMEOUT ]}]
  /\ UNCHANGED << time, chatMounted, typingTimeoutRef, typingSent, timerRuns >>

\* A timer of handleTyping runs (part_003:145-149).
ExpiryFires(c, timer) ==
  /\ timer \in typingTimers[c]
  /\ timer.due <= time
  /\ typingTimers' = [typingTimers EXCEPT ![c] = @ \ {timer}]
  /\ typingUsers' = [typingUsers EXCEPT ![c] = expireTyping(@, timer.userId)]
  /\ timerRuns' = [timerRuns EXCEPT ![c] =
                     [ kind |-> "expiry", mounted |-> chatMounted[c] ]]
  /\ UNCHANGED << time, chatMounted, typingTimeoutRef, typingNet, typingSent >>

\* One second passes; every timer that is due has run.
Tick ==
  /\ time < MaxTicks * 1000
  /\ \A c \in Clients :
        /\ typingTimeoutRef[c] # "pending"
        /\ \A timer \in typingTimers[c] : timer.due > time
  /\ time' = time + 1000
  /\ UNCHANGED << chatMounted, typingUsers, typingTimers, typingTimeoutRef,
                  typingNet, typingSent, timerRuns >>

\* The component using useChat is torn down.  useChat has no cleanup for
\* its timers (the only clearTimeout is the one of sendTypingIndicator,
\* part_003:303-305); the channels of useRealtimeBroadcast are joined and
\* are released (useSupabaseRealtime.ts:156-165), which ends the deliveries.
UnmountChat(c) ==
  /\ chatMounted[c]
  /\ chatMounted' = [chatMounted EXCEPT ![c] = FALSE]
  /\ UNCHANGED << time, typingUsers, typingTimers, typingTimeoutRef,
                  typingNet, typingSent, timerRuns >>

\* A channel object of the transport: its state, whether the effect that
\* created it is still in place, and the removeChannel calls made on it.
Channel(state) == [ state |-> state, live |-> TRUE, removeCalls |-> 0 ]

NoReceipt == [ handlers |-> 0, stale |-> 0 ]

\* Every hook is mounted and its channel is joined.
ChannelsJoined ==
  /\ channels = [c \in Clients |-> << Channel("joined") >>]
  /\ channelRef = [c \in Clients |-> 1]
  /\ received = [c \in Clients |-> NoReceipt]

InitChat ==
  /\ ChannelsJoined
  /\ HooksIdle
  /\ clock = 0
  /\ dbMessages = << >>
  /\ messages = [c \in Clients |-> << >>]
  /\ sends = [c \in Clients |-> << >>]
  /\ chatNet = [c \in Clients |-> {}]
  \* one hook is being mounted; the other finished loading (an empty table)
  /\ \E loader \in Clients :
       chatLoad = [c \in Clients |->
          [ pc |-> IF c = loader THEN "query" ELSE "done", data |-> << >> ]]

NextChat ==
  \/ \E c \in Clients, x \in Contents, now \in Now :
        SendMessage(c, x, now) /\ UNCHANGED << sseVars, reqVars, chanVars, hookVars >>
  \/ \E c \in Clients, k \in 1..MaxSends : InsertMessageOk(c, k) /\ UNCHANGED << sseVars, reqVars, chanVars, hookVars >>
  \/ \E c \in Clients, k \in 1..MaxSends : InsertMessageFail(c, k) /\ UNCHANGED << sseVars, reqVars, chanVars, hookVars >>
  \/ \E c \in Clients, k \in 1..MaxSends : ReplaceMessage(c, k) /\ UNCHANGED << sseVars, reqVars, chanVars, hookVars >>
  \/ \E c \in Clients : \E m \in chatNet[c] : DeliverNewMessage(c, m) /\ UNCHANGED << sseVars, reqVars, chanVars, hookVars >>
  \/ \E c \in Clients : LoadMessagesQuery(c) /\ UNCHANGED << sseVars, reqVars, chanVars, hookVars >>
  \/ \E c \in Clients : LoadMessagesApply(c) /\ UNCHANGED << sseVars, reqVars, chanVars, hookVars >>

Init == InitSSE(BOOLEAN, BOOLEAN) /\ InitChat /\ InitReq

\* The streaming client and its hooks, for every configuration.
SpecSSE == Init /\ [][NextSSE]_vars

\* The streaming client with every public method open to its holder.
InitOfClient == InitSSE({TRUE}, {TRUE}) /\ InitChat /\ InitReq

SpecClient == InitOfClient /\ [][NextClient]_vars

\* The chat hooks at rest.
ChatIdle ==
  /\ ChannelsJoined
  /\ HooksIdle
  /\ clock = 0
  /\ dbMessages = << >>
  /\ messages = [c \in Clients |-> << >>]
  /\ sends = [c \in Clients |-> << >>]
  /\ chatNet = [c \in Clients |-> {}]
  /\ chatLoad = [c \in Clients |-> [ pc |-> "done", data |-> << >> ]]

\* The request hook of every client: submits and loads.
InitOfReq == InitSSE({TRUE}, {TRUE}) /\ ChatIdle /\ InitReq

SpecReq == InitOfReq /\ [][NextReq]_vars

\* Voting on a loaded list.
InitOfVote == InitSSE({TRUE}, {TRUE}) /\ ChatIdle /\ InitReqWith(SeedVotes, {})

SpecVote == InitOfVote /\ [][NextVote]_vars

\* Two voters on a table without votes.
InitOfTwoVoters == InitSSE({TRUE}, {TRUE}) /\ ChatIdle /\ InitReqWith({{}}, {})

SpecTwoVoters == InitOfTwoVoters /\ [][NextTwoVoters]_vars

SpecDoubleToggle == InitOfVote /\ [][NextDoubleToggle]_vars

\* One client submits while the other mounts, loads and votes once; a
\* request is played in between.
NextRequestLife ==
  \/ \E x \in Songs, now \in Now : AddRequest(1, x, x, now)
        /\ UNCHANGED << sseVars, chanVars, hookVars >>
  \/ \E k \in 1..MaxAdds : InsertRequestOk(1, k)
        /\ UNCHANGED << sseVars, chanVars, hookVars >>
  \/ \E k \in 1..MaxAdds : ReplaceRequest(1, k)
        /\ UNCHANGED << sseVars, chanVars, hookVars >>
  \/ \E r \in Votable(2) : toggles[2] = << >> /\ ToggleVote(2, r)
        /\ UNCHANGED << sseVars, chanVars, hookVars >>
  \/ \E k \in 1..MaxToggles : VoteWriteOk(2, k)
        /\ UNCHANGED << sseVars, chanVars, hookVars >>
  \/ \E k \in 1..MaxToggles : VoteWriteFail(2, k)
        /\ UNCHANGED << sseVars, chanVars, hookVars >>
  \/ \E c \in Clients : \E ev \in reqNet[c] : DeliverRequestEvent(c, ev)
        /\ UNCHANGED << sseVars, chanVars, hookVars >>
  \/ \E n \in 1..Len(dbRequests) : StatusChange(n, "played")
        /\ UNCHANGED << sseVars, chanVars, hookVars >>
  \/ LoadRequestsQuery(2)
        /\ UNCHANGED << sseVars, chanVars, hookVars >>
  \/ LoadVotesQuery(2)
        /\ UNCHANGED << sseVars, chanVars, hookVars >>
  \/ LoadRequestsApply(2)
        /\ UNCHANGED << sseVars, chanVars, hookVars >>

InitOfRequestLife == InitSSE({TRUE}, {TRUE}) /\ ChatIdle /\ InitReqWith({{}}, {2})

SpecRequestLife == InitOfRequestLife /\ [][NextRequestLife]_vars

(***************************************************************************)
(* The text a user submits: pad spaces, then len copies of the character   *)
(* text, wrapped in markup when tag holds, then pad spaces.                 *)
(***************************************************************************)
Strings(max) ==
  [ pad : 0..1, text : Contents, len : {0, 1, max, max + 1}, tag : BOOLEAN ]

\* String.prototype.trim
trim(str) == [str EXCEPT !.pad = 0]

\* DOMPurify.sanitize with ALLOWED_TAGS: [] keeps the text and drops the markup.
sanitize(str) == [str EXCEPT !.tag = FALSE]

\* String.prototype.length
StrLen(str) == 2 * str.pad + str.len + (IF str.tag THEN 7 ELSE 0)

\* A test that forgets the length.
messageRejected_NoLengthTest(sanitized) == StrLen(sanitized) = 0

\* The two tests of sendMessage (part_003:198-206).
messageRejected(sanitized) ==
  StrLen(sanitized) = 0 \/ StrLen(sanitized) > MAX_MESSAGE_LENGTH

\* The three tests of addRequest (useSongRequests.ts:222-235).
requestRejected(sanitizedSong, sanitizedArtist) ==
  \/ StrLen(sanitizedSong) = 0 \/ StrLen(sanitizedArtist) = 0
  \/ StrLen(sanitizedSong) > MAX_SONG_NAME_LENGTH
  \/ StrLen(sanitizedArtist) > MAX_ARTIST_LENGTH

\* The record of a call that returned false before its try block.
RejectedCall == [ pc |-> "rejected" ]

\* sendMessage(content) as a whole up to its first await (part_003:183-252).
SubmitMessage(c, content, now) ==
  LET sanitized == sanitize(trim(content))
  IN  IF messageRejected(sanitized)
      THEN /\ SendsMade < MaxSends
           /\ sends' = [sends EXCEPT ![c] = Append(@, RejectedCall)]
           /\ UNCHANGED << clock, dbMessages, messages, chatNet, chatLoad >>
      ELSE SendMessage(c, sanitized, now)

\* addRequest(songName, artist) as a whole up to its first await
\* (useSongRequests.ts:203-285).
SubmitRequest(c, songName, artist, now) ==
  LET sanitizedSong == sanitize(trim(songName))
      sanitizedArtist == sanitize(trim(artist))
  IN  IF requestRejected(sanitizedSong, sanitizedArtist)
      THEN /\ AddsMade < MaxAdds
           /\ adds' = [adds EXCEPT ![c] = Append(@, RejectedCall)]
           /\ UNCHANGED << clock, dbMessages, messages, sends, chatNet, chatLoad,
                           dbRequests, dbVotes, requests, userVotes, toggles,
                           reqNet, reqLoad, statusChanges >>
      ELSE AddRequest(c, sanitizedSong, sanitizedArtist, now)

MessageInputs == { str \in Strings(MAX_MESSAGE_LENGTH) : str.text = 1 }
SongInputs == { str \in Strings(MAX_SONG_NAME_LENGTH) : str.text = 1 /\ ~str.tag }
ArtistInputs == { str \in Strings(MAX_ARTIST_LENGTH) : str.text = 1 /\ ~str.tag /\ str.pad = 0 }

\* One user sends messages and the other requests, of any text; their
\* writes and the replacements.
NextValidate ==
  \/ \E content \in MessageInputs, now \in Now :
        SubmitMessage(1, content, now) /\ UNCHANGED << sseVars, reqVars, chanVars, hookVars >>
  \/ \E c \in Clients, k \in 1..MaxSends :
        InsertMessageOk(c, k) /\ UNCHANGED << sseVars, reqVars, chanVars, hookVars >>
  \/ \E c \in Clients, k \in 1..MaxSends :
        ReplaceMessage(c, k) /\ UNCHANGED << sseVars, reqVars, chanVars, hookVars >>
  \/ \E songName \in SongInputs, artist \in ArtistInputs, now \in Now :
        SubmitRequest(2, songName, artist, now) /\ UNCHANGED << sseVars, chanVars, hookVars >>
  \/ \E c \in Clients, k \in 1..MaxAdds :
        InsertRequestOk(c, k) /\ UNCHANGED << sseVars, chanVars, hookVars >>
  \/ \E c \in Clients, k \in 1..MaxAdds :
        ReplaceRequest(c, k) /\ UNCHANGED << sseVars, chanVars, hookVars >>

SpecValidate == InitOfTwoVoters /\ [][NextValidate]_vars

(***************************************************************************)
(* useChat.retryMessage (part_003:316-331).                                *)
(***************************************************************************)
\* messages.find((m) => m.id === messageId && m._error): the index, 0 for
\* undefined.
findFailed(list, messageId) ==
  LET hits == { i \in 1..Len(list) : list[i].id = messageId /\ list[i].error }
  IN  IF hits = {} THEN 0 ELSE CHOOSE i \in hits : \A j \in hits : i <= j

\* A retry that keeps the failed entry.
removeMessage_Keeps(list, messageId) == list

\* prev.filter((m) => m.id !== messageId) (part_003:324).
removeMessage(list, messageId) ==
  SelectSeq(list, LAMBDA m : m.id # messageId)

\* The record of a retryMessage call that returned at line 321.
IgnoredCall == [ pc |-> "ignored" ]

\* retryMessage(messageId) up to the first await of the sendMessage it calls
\* (part_003:318-327, 183-252); the content of a placeholder passed the
\* tests of sendMessage before.
RetryMessage(c, messageId, now) ==
  /\ SendsMade < MaxSends
  /\ LET at == findFailed(messages[c], messageId)
     IN  IF at = 0
         THEN /\ sends' = [sends EXCEPT ![c] = Append(@, IgnoredCall)]
              /\ UNCHANGED << clock, messages >>
         ELSE LET failedMsg == messages[c][at]
                  m == optimisticMessage(c, failedMsg.content, now)
              IN  /\ clock' = now
                  /\ messages' = [messages EXCEPT ![c] =
                        Append(removeMessage(@, messageId), m)]
                  /\ sends' = [sends EXCEPT ![c] =
                        Append(@, [ optId |-> m.id, content |-> failedMsg.content,
                                    pc |-> "insert", row |-> m,
                                    retryOf |-> messageId ])]
  /\ UNCHANGED << dbMessages, chatNet, chatLoad >>

\* The ids a user can pass to retryMessage: those on screen and one that is not.
RetryIds(c) == { messages[c][i].id : i \in 1..Len(messages[c]) } \cup { OptId(0 - 1) }

\* One user sends, the writes resolve, the user retries; the other user
\* receives the events.
NextRetry ==
  \/ \E x \in Contents, now \in Now :
        SendMessage(1, x, now) /\ UNCHANGED << sseVars, reqVars, chanVars, hookVars >>
  \/ \E k \in 1..MaxSends :
        InsertMessageOk(1, k) /\ UNCHANGED << sseVars, reqVars, chanVars, hookVars >>
  \/ \E k \in 1..MaxSends :
        InsertMessageFail(1, k) /\ UNCHANGED << sseVars, reqVars, chanVars, hookVars >>
  \/ \E k \in 1..MaxSends :
        ReplaceMessage(1, k) /\ UNCHANGED << sseVars, reqVars, chanVars, hookVars >>
  \/ \E messageId \in RetryIds(1) : \E now \in Now :
        RetryMessage(1, messageId, now) /\ UNCHANGED << sseVars, reqVars, chanVars, hookVars >>
  \/ \E m \in chatNet[2] :
        DeliverNewMessage(2, m) /\ UNCHANGED << sseVars, reqVars, chanVars, hookVars >>

SpecRetry == InitOfTwoVoters /\ [][NextRetry]_vars

\* The hook returns addRequest and toggleVote only (useSongRequests.ts:445-452):
\* the user retries a failed request by calling addRequest again with the
\* texts of failed call k (useSongRequests.ts:203-285).
ResubmitRequest(c, k, now) ==
  /\ k \in 1..Len(adds[c])
  /\ adds[c][k].pc = "failed"
  /\ Len(adds[c]) < MaxAdds + MaxResubmits
  /\ clock' = now
  /\ LET r == optimisticRequest(c, adds[c][k].song_name, adds[c][k].artist, now)
     IN  /\ requests' = [requests EXCEPT ![c] = sortRequests(Append(@, r))]
         /\ adds' = [adds EXCEPT ![c] =
               Append(@, [ optId |-> r.id, song_name |-> r.song_name,
                           artist |-> r.artist, pc |-> "insert", row |-> r,
                           retryOf |-> adds[c][k].optId ])]
  /\ UNCHANGED << dbMessages, messages, sends, chatNet, chatLoad,
                  dbRequests, dbVotes, userVotes, toggles, reqNet, reqLoad,
                  statusChanges >>

\* A user submits a request, the write fails, the user submits it again.
NextResubmit ==
  \/ \E c \in Clients, x \in Songs, now \in Now :
        adds[c] = << >> /\ AddRequest(c, x, x, now)
        /\ UNCHANGED << sseVars, chanVars, hookVars >>
  \/ \E c \in Clients, k \in 1..(MaxAdds + MaxResubmits) : InsertRequestOk(c, k)
        /\ UNCHANGED << sseVars, chanVars, hookVars >>
  \/ \E c \in Clients, k \in 1..(MaxAdds + MaxResubmits) : InsertRequestFail(c, k)
        /\ UNCHANGED << sseVars, chanVars, hookVars >>
  \/ \E c \in Clients, k \in 1..(MaxAdds + MaxResubmits) : ReplaceRequest(c, k)
        /\ UNCHANGED << sseVars, chanVars, hookVars >>
  \/ \E c \in Clients, k \in 1..MaxAdds, now \in Now : ResubmitRequest(c, k, now)
        /\ UNCHANGED << sseVars, chanVars, hookVars >>
  \/ \E c \in Clients : \E ev \in reqNet[c] : DeliverRequestEvent(c, ev)
        /\ UNCHANGED << sseVars, chanVars, hookVars >>

SpecResubmit == InitOfTwoVoters /\ [][NextResubmit]_vars

(***************************************************************************)
(* useRealtimeBroadcast (useSupabaseRealtime.ts:121-198).                  *)
(***************************************************************************)
\* The effect runs: a channel is created, the callbacks are registered on it
\* and subscribe() is called (useSupabaseRealtime.ts:127-153).
Subscribe(c) ==
  /\ Len(channels[c]) < MaxChannels
  /\ \A i \in 1..Len(channels[c]) : ~channels[c][i].live
  /\ channels' = [channels EXCEPT ![c] = Append(@, Channel("joining"))]
  /\ channelRef' = [channelRef EXCEPT ![c] = Len(channels[c]) + 1]
  /\ UNCHANGED received

\* The transport answers the join: SUBSCRIBED.
JoinOk(c, i) ==
  /\ i \in 1..Len(channels[c])
  /\ channels[c][i].state = "joining"
  /\ channels' = [channels EXCEPT ![c][i].state = "joined"]
  /\ UNCHANGED << channelRef, received >>

\* The transport answers CHANNEL_ERROR or TIMED_OUT.
JoinFails(c, i) ==
  /\ i \in 1..Len(channels[c])
  /\ channels[c][i].state = "joining"
  /\ channels' = [channels EXCEPT ![c][i].state = "errored"]
  /\ UNCHANGED << channelRef, received >>

\* The transport closes a joined channel: CLOSED.
ChannelCloses(c, i) ==
  /\ i \in 1..Len(channels[c])
  /\ channels[c][i].state = "joined"
  /\ channels' = [channels EXCEPT ![c][i].state = "closed"]
  /\ UNCHANGED << channelRef, received >>

\* The cleanup of the effect (useSupabaseRealtime.ts:156-165): removeChannel
\* is called when channel.state is 'joined', and skipped otherwise.
cleanup(channel) ==
  IF channel.state = "joined"
  THEN [ state |-> "closed", live |-> FALSE, removeCalls |-> channel.removeCalls + 1 ]
  ELSE [channel EXCEPT !.live = FALSE]

\* The hook is unmounted or its subscriptions change: React runs the cleanup
\* of the effect in place; channelRef.current keeps the channel.
Cleanup(c) ==
  /\ \E i \in 1..Len(channels[c]) :
        /\ channels[c][i].live
        /\ channels' = [channels EXCEPT ![c][i] = cleanup(@)]
  /\ UNCHANGED << channelRef, received >>

\* channel.send resolves 'ok', resolves 'error' or 'timed out', or rejects.
SendOutcomes == {"ok", "error", "rejected"}

\* A broadcast without its try/catch.
broadcast_NoCatch(ref, outcome) ==
  IF ref = 0
  THEN [ sent |-> FALSE, raised |-> FALSE ]
  ELSE [ sent |-> outcome = "ok", raised |-> outcome = "rejected" ]

\* broadcast(event, payload) (useSupabaseRealtime.ts:173-196): whether the
\* envelope left, and whether the promise rejected.  A channel that is not
\* joined only adds a warning.
broadcast(ref, outcome) ==
  IF ref = 0
  THEN [ sent |-> FALSE, raised |-> FALSE ]
  ELSE [ sent |-> outcome = "ok", raised |-> FALSE ]

\* The insert of call k resolves with the row and broadcast() settles
\* (part_003:248-275); a rejection of broadcast() would go to the catch
\* block of sendMessage (285-288).
InsertMessageOkBroadcast(c, k, outcome) ==
  /\ k \in 1..Len(sends[c])
  /\ sends[c][k].pc = "insert"
  /\ LET row == messageRow(c, sends[c][k].content)
         b == broadcast(channelRef[c], outcome)
     IN  /\ dbMessages' = Append(dbMessages, row)
         /\ chatNet' = IF b.sent
                       THEN [d \in Clients |-> chatNet[d] \cup {row}]
                       ELSE chatNet
         /\ sends' = [sends EXCEPT ![c][k] =
               [ optId |-> @.optId, content |-> @.content, row |-> row,
                 pc |-> IF b.raised THEN "threw" ELSE "broadcast",
                 viaState |-> IF channelRef[c] = 0 THEN "none"
                              ELSE channels[c][channelRef[c]].state,
                 outcome |-> outcome ]]
  /\ UNCHANGED << clock, messages, chatLoad >>

\* The count query of call k resolves, with the count (ok) or with an error
\* and count null, and broadcast() settles (useSongRequests.ts:397-409); a
\* rejection of broadcast() would go to the catch block (410-440).  The
\* call keeps its `count` and the payload it handed to broadcast().
CountVotesAndBroadcast(c, k, ok, outcome) ==
  /\ k \in 1..Len(toggles[c])
  /\ toggles[c][k].pc = "count"
  /\ LET t == toggles[c][k]
         count == IF ok THEN Cardinality(VotesFor(dbVotes, t.requestId)) ELSE -1
         payload == [ event |-> "vote-change", requestId |-> t.requestId,
                      voteCount |-> voteCountPayload(count) ]
         b == broadcast(channelRef[c], outcome)
     IN  /\ reqNet' = IF b.sent THEN Broadcast(reqNet, payload) ELSE reqNet
         /\ requests' = IF b.raised
                        THEN [requests EXCEPT ![c] =
                                 toggleRollback(@, t.requestId, t.isVoted)]
                        ELSE requests
         /\ userVotes' = IF b.raised
                         THEN [userVotes EXCEPT ![c] =
                                  votesAfterRollback(@, t.requestId, t.isVoted)]
                         ELSE userVotes
         /\ toggles' = [toggles EXCEPT ![c][k] =
               [ requestId |-> t.requestId, isVoted |-> t.isVoted,
                 before |-> t.before,
                 pc |-> IF b.raised THEN "threw" ELSE "done",
                 count |-> count, payload |-> payload, sent |-> b.sent ]]
  /\ UNCHANGED << clock, dbMessages, messages, sends, chatNet, chatLoad,
                  dbRequests, dbVotes, adds, reqLoad, statusChanges >>

\* The insert of call k resolves with the row and broadcast() settles
\* (useSongRequests.ts:281-298); a rejection of broadcast() would go to the
\* catch block (312-315).
InsertRequestOkBroadcast(c, k, outcome) ==
  /\ k \in 1..Len(adds[c])
  /\ adds[c][k].pc = "insert"
  /\ LET row == requestRow(c, adds[c][k].song_name, adds[c][k].artist)
         b == broadcast(channelRef[c], outcome)
     IN  /\ dbRequests' = Append(dbRequests, row)
         /\ reqNet' = IF b.sent
                      THEN Broadcast(reqNet, [ event |-> "new-request", row |-> row ])
                      ELSE reqNet
         /\ adds' = [adds EXCEPT ![c][k].pc = IF b.raised THEN "threw" ELSE "broadcast",
                                 ![c][k].row = row]
  /\ UNCHANGED << clock, dbMessages, messages, sends, chatNet, chatLoad,
                  dbVotes, requests, userVotes, toggles, reqLoad, statusChanges >>

RECURSIVE handleTimes(_, _, _, _)
\* The list after n registered callbacks ran handleNewMessage for payload m.
handleTimes(n, c, list, m) ==
  IF n = 0 THEN list ELSE handleTimes(n - 1, c, handleNewMessage(c, list, m), m)

\* An envelope reaches the socket of c: the callback registered on every
\* joined channel of c runs (useSupabaseRealtime.ts:139-142).
ReceiveNewMessage(c, m) ==
  /\ m \in chatNet[c]
  /\ LET joined == { i \in 1..Len(channels[c]) : channels[c][i].state = "joined" }
         stale == { i \in joined : ~channels[c][i].live }
     IN  /\ messages' = [messages EXCEPT ![c] =
                            handleTimes(Cardinality(joined), c, @, m)]
         /\ received' = [received EXCEPT ![c] =
               [ handlers |-> Cardinality(joined), stale |-> Cardinality(stale) ]]
  /\ chatNet' = [chatNet EXCEPT ![c] = @ \ {m}]
  /\ UNCHANGED << clock, dbMessages, sends, chatLoad, channels, channelRef >>

\* The hooks in unmounted are not mounted yet, the others have joined.
InitOfChannel(unmounted) ==
  /\ InitSSE({TRUE}, {TRUE})
  /\ HooksIdle
  /\ clock = 0
  /\ dbMessages = << >>
  /\ messages = [c \in Clients |-> << >>]
  /\ sends = [c \in Clients |-> << >>]
  /\ chatNet = [c \in Clients |-> {}]
  /\ chatLoad = [c \in Clients |-> [ pc |-> "done", data |-> << >> ]]
  /\ InitReqWith({{}}, {})
  /\ channels = [c \in Clients |->
        IF c \in unmounted THEN << >> ELSE << Channel("joined") >>]
  /\ channelRef = [c \in Clients |-> IF c \in unmounted THEN 0 ELSE 1]
  /\ received = [c \in Clients |-> NoReceipt]

\* The sender's hook mounts and its channel joins or fails while the user
\* sends one message after the other; the other user receives.
NextBroadcast ==
  \/ Subscribe(1)
        /\ UNCHANGED << sseVars, chatVars, reqVars, hookVars >>
  \/ \E i \in 1..MaxChannels : JoinOk(1, i)
        /\ UNCHANGED << sseVars, chatVars, reqVars, hookVars >>
  \/ \E i \in 1..MaxChannels : JoinFails(1, i)
        /\ UNCHANGED << sseVars, chatVars, reqVars, hookVars >>
  \/ \E x \in Contents, now \in Now :
        /\ \A k \in 1..Len(sends[1]) : sends[1][k].pc = "done"
        /\ SendMessage(1, x, now)
        /\ UNCHANGED << sseVars, reqVars, chanVars, hookVars >>
  \/ \E k \in 1..MaxSends, outcome \in SendOutcomes :
        InsertMessageOkBroadcast(1, k, outcome)
        /\ UNCHANGED << sseVars, reqVars, chanVars, hookVars >>
  \/ \E k \in 1..MaxSends :
        ReplaceMessage(1, k) /\ UNCHANGED << sseVars, reqVars, chanVars, hookVars >>
  \/ \E m \in chatNet[2] :
        ReceiveNewMessage(2, m) /\ UNCHANGED << sseVars, reqVars, hookVars >>

InitOfBroadcast == InitOfChannel({1})

SpecBroadcast == InitOfBroadcast /\ [][NextBroadcast]_vars

\* The receiver's hook mounts, is torn down and mounts again while its
\* channels change state; the other user sends.
NextChannel ==
  \/ Subscribe(2)
        /\ UNCHANGED << sseVars, chatVars, reqVars, hookVars >>
  \/ \E i \in 1..MaxChannels : JoinOk(2, i)
        /\ UNCHANGED << sseVars, chatVars, reqVars, hookVars >>
  \/ \E i \in 1..MaxChannels : JoinFails(2, i)
        /\ UNCHANGED << sseVars, chatVars, reqVars, hookVars >>
  \/ \E i \in 1..MaxChannels : ChannelCloses(2, i)
        /\ UNCHANGED << sseVars, chatVars, reqVars, hookVars >>
  \/ Cleanup(2)
        /\ UNCHANGED << sseVars, chatVars, reqVars, hookVars >>
  \/ \E x \in Contents, now \in Now :
        SendMessage(1, x, now)
        /\ UNCHANGED << sseVars, reqVars, chanVars, hookVars >>
  \/ \E k \in 1..MaxSends :
        InsertMessageOk(1, k) /\ UNCHANGED << sseVars, reqVars, chanVars, hookVars >>
  \/ \E k \in 1..MaxSends :
        ReplaceMessage(1, k) /\ UNCHANGED << sseVars, reqVars, chanVars, hookVars >>
  \/ \E m \in chatNet[2] :
        ReceiveNewMessage(2, m) /\ UNCHANGED << sseVars, reqVars, hookVars >>

InitOfReceiver == InitOfChannel({2})

SpecChannel == InitOfReceiver /\ [][NextChannel]_vars

\* Submitting on a loaded list.
SpecReqEcho == InitOfVote /\ [][NextReqEcho]_vars

\* Both users type; the typing signals are delivered and expire while
\* the components are torn down.
NextTyping ==
  \/ \E c \in Clients : SendTypingIndicator(c) /\ UNCHANGED << sseVars, chatVars, reqVars, chanVars, sortVars, authVars, trackVars >>
  \/ \E c \in Clients : DebounceFires(c) /\ UNCHANGED << sseVars, chatVars, reqVars, chanVars, sortVars, authVars, trackVars >>
  \/ \E c \in Clients : \E payload \in typingNet[c] :
        HandleTyping(c, payload) /\ UNCHANGED << sseVars, chatVars, reqVars, chanVars, sortVars, authVars, trackVars >>
  \/ \E c \in Clients : \E timer \in typingTimers[c] :
        ExpiryFires(c, timer) /\ UNCHANGED << sseVars, chatVars, reqVars, chanVars, sortVars, authVars, trackVars >>
  \/ Tick /\ UNCHANGED << sseVars, chatVars, reqVars, chanVars, sortVars, authVars, trackVars >>
  \/ \E c \in Clients : UnmountChat(c) /\ UNCHANGED << sseVars, chatVars, reqVars, chanVars, sortVars, authVars, trackVars >>

SpecTyping == InitOfTwoVoters /\ [][NextTyping]_vars

\* The lists sortRequests is called with: up to MaxListLen entities, the
\* entity at position i of the input having id i.
SortInputs ==
  UNION { { [i \in 1..n |->
               [ id |-> SrvId(i), status |-> f[i].status,
                 vote_count |-> f[i].vote_count, created_at |-> f[i].created_at ] ] :
            f \in [1..n -> [ status : {"pending", "playing"},
                             vote_count : 0..MaxVotes,
                             created_at : 0..MaxClock ]] } :
          n \in 0..MaxListLen }

\* A caller holds a list and calls sortRequests(list) (useSongRequests.ts:
\* 458-472): the function sorts a copy and returns it.
SortCall ==
  /\ sortCalls = 0
  /\ sortResult' = sortRequests(sortInput)
  /\ sortCalls' = 1
  /\ UNCHANGED sortInput

\* The caller hands the returned list to sortRequests again.
SortAgain ==
  /\ sortCalls = 1
  /\ sortResult' = sortRequests(sortResult)
  /\ sortCalls' = 2
  /\ UNCHANGED sortInput

InitOfSort ==
  /\ InitSSE({TRUE}, {TRUE})
  /\ ProfilesDistinct
  /\ TracksIdle
  /\ ChannelsJoined
  /\ TypingIdle
  /\ clock = 0
  /\ dbMessages = << >>
  /\ messages = [c \in Clients |-> << >>]
  /\ sends = [c \in Clients |-> << >>]
  /\ chatNet = [c \in Clients |-> {}]
  /\ chatLoad = [c \in Clients |-> [ pc |-> "done", data |-> << >> ]]
  /\ InitReqWith({{}}, {})
  /\ sortInput \in SortInputs
  /\ sortResult = << >>
  /\ sortCalls = 0

NextSort ==
  \/ SortCall /\ UNCHANGED << sseVars, chatVars, reqVars, chanVars, typVars, authVars, trackVars >>
  \/ SortAgain /\ UNCHANGED << sseVars, chatVars, reqVars, chanVars, typVars, authVars, trackVars >>

SpecSort == InitOfSort /\ [][NextSort]_vars

\* One user with the chat open in two tabs: one submit per tab, with its
\* write, its broadcast and the deliveries.
InitOfTabs ==
  /\ InitSSE({TRUE}, {TRUE})
  /\ ProfilesShared
  /\ ChannelsJoined
  /\ TypingIdle
  /\ SortIdle
  /\ TracksIdle
  /\ clock = 0
  /\ dbMessages = << >>
  /\ messages = [c \in Clients |-> << >>]
  /\ sends = [c \in Clients |-> << >>]
  /\ chatNet = [c \in Clients |-> {}]
  /\ chatLoad = [c \in Clients |-> [ pc |-> "done", data |-> << >> ]]
  /\ InitReq

NextTabs ==
  \/ \E c \in Clients, x \in Contents, now \in Now :
        sends[c] = << >> /\ SendMessage(c, x, now) /\ UNCHANGED << sseVars, reqVars, chanVars, hookVars >>
  \/ \E c \in Clients, k \in 1..MaxSends : InsertMessageOk(c, k) /\ UNCHANGED << sseVars, reqVars, chanVars, hookVars >>
  \/ \E c \in Clients, k \in 1..MaxSends : InsertMessageFail(c, k) /\ UNCHANGED << sseVars, reqVars, chanVars, hookVars >>
  \/ \E c \in Clients, k \in 1..MaxSends : ReplaceMessage(c, k) /\ UNCHANGED << sseVars, reqVars, chanVars, hookVars >>
  \/ \E c \in Clients : \E m \in chatNet[c] : DeliverNewMessage(c, m) /\ UNCHANGED << sseVars, reqVars, chanVars, hookVars >>

SpecTabs == InitOfTabs /\ [][NextTabs]_vars

\* Voting where the count query can fail.
NextCount ==
  \/ \E c \in Clients : \E r \in Votable(c) : ToggleVote(c, r)
        /\ UNCHANGED << sseVars, chanVars, hookVars >>
  \/ \E c \in Clients, k \in 1..MaxToggles : VoteWriteOk(c, k)
        /\ UNCHANGED << sseVars, chanVars, hookVars >>
  \/ \E c \in Clients, k \in 1..MaxToggles : VoteWriteFail(c, k)
        /\ UNCHANGED << sseVars, chanVars, hookVars >>
  \/ \E c \in Clients, k \in 1..MaxToggles, ok \in BOOLEAN, outcome \in SendOutcomes :
        CountVotesAndBroadcast(c, k, ok, outcome)
        /\ UNCHANGED << sseVars, chanVars, hookVars >>
  \/ \E c \in Clients : \E ev \in reqNet[c] : DeliverRequestEvent(c, ev)
        /\ UNCHANGED << sseVars, chanVars, hookVars >>

SpecCount == InitOfVote /\ [][NextCount]_vars

(***************************************************************************)
(* useNowPlaying of every client on topic 'now-playing'                    *)
(* (src/src/hooks/useNowPlaying.ts:46-157).                                *)
(***************************************************************************)
\* A handler that passes the payload on.
handleNowPlayingBroadcast_Rebroadcasts(broadcastData) ==
  [ data |-> broadcastData.track, broadcasts |-> TRUE ]

\* handleNowPlayingBroadcast (useNowPlaying.ts:52-56): the data it stores
\* and whether it calls broadcast().
handleNowPlayingBroadcast(broadcastData) ==
  [ data |-> broadcastData.track, broadcasts |-> FALSE ]

\* broadcast('track-update', newData) by client c: the payload goes to
\* every subscriber when channel.send succeeds.
BroadcastTrack(c, track, outcome) ==
  /\ trackBroadcasts' = trackBroadcasts + 1
  /\ trackNet' =
       IF broadcast(channelRef[c], outcome).sent
       THEN [d \in Clients |->
               trackNet[d] \cup {[ track |-> track, n |-> trackBroadcasts + 1 ]}]
       ELSE trackNet

\* handleRealtimeUpdate (useNowPlaying.ts:73-83): the stream of client c
\* delivered an update.
HandleRealtimeUpdate(c, track, outcome) ==
  /\ trackFetches < MaxUpdates
  /\ trackFetches' = trackFetches + 1
  /\ nowPlaying' = [nowPlaying EXCEPT ![c] = track]
  /\ BroadcastTrack(c, track, outcome)

\* fetchData after its await (useNowPlaying.ts:97-124): fetchNowPlaying()
\* resolved with data, or with null (track 0).
FetchData(c, track, outcome) ==
  /\ trackFetches < MaxUpdates
  /\ trackFetches' = trackFetches + 1
  /\ IF track # 0
     THEN /\ nowPlaying' = [nowPlaying EXCEPT ![c] = track]
          /\ BroadcastTrack(c, track, outcome)
     ELSE UNCHANGED << nowPlaying, trackNet, trackBroadcasts >>

\* A 'track-update' payload reaches client c (useSupabaseRealtime.ts:139-142).
ReceiveTrackUpdate(c, payload) ==
  /\ payload \in trackNet[c]
  /\ LET h == handleNowPlayingBroadcast(payload)
     IN  /\ nowPlaying' = [nowPlaying EXCEPT ![c] = h.data]
         /\ IF h.broadcasts /\ trackBroadcasts < MaxUpdates * MaxUpdates
            THEN /\ trackBroadcasts' = trackBroadcasts + 1
                 /\ trackNet' = [d \in Clients |->
                       (IF d = c THEN trackNet[d] \ {payload} ELSE trackNet[d])
                          \cup {[ track |-> payload.track, n |-> trackBroadcasts + 1 ]}]
            ELSE /\ trackNet' = [trackNet EXCEPT ![c] = @ \ {payload}]
                 /\ UNCHANGED trackBroadcasts
  /\ UNCHANGED trackFetches

NextTracks ==
  \/ \E c \in Clients, track \in Tracks, outcome \in SendOutcomes :
        HandleRealtimeUpdate(c, track, outcome)
        /\ UNCHANGED << sseVars, chatVars, reqVars, chanVars, authVars, typVars, sortVars >>
  \/ \E c \in Clients, track \in 0..MaxTrack, outcome \in SendOutcomes :
        FetchData(c, track, outcome)
        /\ UNCHANGED << sseVars, chatVars, reqVars, chanVars, authVars, typVars, sortVars >>
  \/ \E c \in Clients : \E payload \in trackNet[c] :
        ReceiveTrackUpdate(c, payload)
        /\ UNCHANGED << sseVars, chatVars, reqVars, chanVars, authVars, typVars, sortVars >>

\* The transport delivers every payload it accepted.
TracksDelivered ==
  WF_vars(\E c \in Clients : \E payload \in trackNet[c] :
             ReceiveTrackUpdate(c, payload)
             /\ UNCHANGED << sseVars, chatVars, reqVars, chanVars, authVars, typVars, sortVars >>)

SpecTracks == InitOfTwoVoters /\ [][NextTracks]_vars /\ TracksDelivered

(***************************************************************************)
(* The promises of the async entry points sendMessage, retryMessage,       *)
(* addRequest and toggleVote.                                              *)
(***************************************************************************)
Fulfilled(value) == [ state |-> "fulfilled", value |-> value ]
Rejected == [ state |-> "rejected", value |-> FALSE ]
Pending == [ state |-> "pending", value |-> FALSE ]

\* A body whose exception leaves the function.
tryCatch_Rethrows(thrown, value) ==
  IF thrown THEN Rejected ELSE Fulfilled(value)

\* try { ...; return value } catch (err) { ...; return false } (part_003:
\* 208-291, useSongRequests.ts:237-318, 337-440): the promise of the call,
\* given whether the body threw.
tryCatch(thrown, value) ==
  IF thrown THEN Fulfilled(FALSE) ELSE Fulfilled(value)

\* The promise of a call: it returned false before its try block (the
\* tests of the input; retryMessage without a failed message), its body
\* threw (the write failed, or broadcast() rejected), it returned true, or it
\* is still waiting.
promiseOf(call) ==
  CASE call.pc \in {"rejected", "ignored"} -> Fulfilled(FALSE)
    [] call.pc \in {"failed", "threw"} -> tryCatch(TRUE, FALSE)
    [] call.pc = "done" -> tryCatch(FALSE, TRUE)
    [] OTHER -> Pending

\* The calls of all entry points of client c.
CallsOf(c) ==
  { sends[c][k] : k \in 1..Len(sends[c]) }
    \cup { adds[c][k] : k \in 1..Len(adds[c]) }
    \cup { toggles[c][k] : k \in 1..Len(toggles[c]) }

\* The user waits for a call to settle before starting the next one.
NoCallInFlight ==
  \A c \in Clients : \A call \in CallsOf(c) : promiseOf(call).state # "pending"

\* The texts typed: one that passes the tests and an empty one.
TypedMessages == { str \in MessageInputs : str.pad = 0 /\ ~str.tag /\ str.len <= 1 }

\* User 1 sends and retries messages, user 2 adds a request and votes;
\* every write, every count query and every channel.send has every outcome.
NextEntry ==
  \/ \E content \in TypedMessages, now \in Now :
        NoCallInFlight /\ SubmitMessage(1, content, now)
        /\ UNCHANGED << sseVars, reqVars, chanVars, hookVars >>
  \/ \E messageId \in RetryIds(1) : \E now \in Now :
        NoCallInFlight /\ RetryMessage(1, messageId, now)
        /\ UNCHANGED << sseVars, reqVars, chanVars, hookVars >>
  \/ \E k \in 1..MaxSends, outcome \in SendOutcomes :
        InsertMessageOkBroadcast(1, k, outcome)
        /\ UNCHANGED << sseVars, reqVars, channels, channelRef, received, hookVars >>
  \/ \E k \in 1..MaxSends :
        InsertMessageFail(1, k) /\ UNCHANGED << sseVars, reqVars, chanVars, hookVars >>
  \/ \E k \in 1..MaxSends :
        ReplaceMessage(1, k) /\ UNCHANGED << sseVars, reqVars, chanVars, hookVars >>
  \/ \E now \in Now :
        NoCallInFlight /\ AddRequest(2, 1, 1, now)
        /\ UNCHANGED << sseVars, chanVars, hookVars >>
  \/ \E k \in 1..MaxAdds, outcome \in SendOutcomes :
        InsertRequestOkBroadcast(2, k, outcome)
        /\ UNCHANGED << sseVars, chanVars, hookVars >>
  \/ \E k \in 1..MaxAdds :
        InsertRequestFail(2, k) /\ UNCHANGED << sseVars, chanVars, hookVars >>
  \/ \E k \in 1..MaxAdds :
        ReplaceRequest(2, k) /\ UNCHANGED << sseVars, chanVars, hookVars >>
  \/ NoCallInFlight /\ ToggleVote(2, SrvId(1))
        /\ UNCHANGED << sseVars, chanVars, hookVars >>
  \/ \E k \in 1..MaxToggles :
        VoteWriteOk(2, k) /\ UNCHANGED << sseVars, chanVars, hookVars >>
  \/ \E k \in 1..MaxToggles :
        VoteWriteFail(2, k) /\ UNCHANGED << sseVars, chanVars, hookVars >>
  \/ \E k \in 1..MaxToggles, ok \in BOOLEAN, outcome \in SendOutcomes :
        CountVotesAndBroadcast(2, k, ok, outcome)
        /\ UNCHANGED << sseVars, chanVars, hookVars >>

SpecEntry == InitOfTwoVoters /\ [][NextEntry]_vars

\* The chat hook of every client (the streaming client is left unmounted).
InitOfChat == InitSSE({TRUE}, {TRUE}) /\ InitChat /\ InitReq

SpecChat == InitOfChat /\ [][NextChat]_vars

\* Submits, writes and broadcasts only: every initial load has completed.
InitOfSubmit ==
  /\ InitSSE({TRUE}, {TRUE})
  /\ ChannelsJoined
  /\ HooksIdle
  /\ clock = 0
  /\ dbMessages = << >>
  /\ messages = [c \in Clients |-> << >>]
  /\ sends = [c \in Clients |-> << >>]
  /\ chatNet = [c \in Clients |-> {}]
  /\ chatLoad = [c \in Clients |-> [ pc |-> "done", data |-> << >> ]]
  /\ InitReq

NextSubmit ==
  \/ \E c \in Clients, x \in Contents, now \in Now :
        SendMessage(c, x, now) /\ UNCHANGED << sseVars, reqVars, chanVars, hookVars >>
  \/ \E c \in Clients, k \in 1..MaxSends : InsertMessageOk(c, k) /\ UNCHANGED << sseVars, reqVars, chanVars, hookVars >>
  \/ \E c \in Clients, k \in 1..MaxSends : InsertMessageFail(c, k) /\ UNCHANGED << sseVars, reqVars, chanVars, hookVars >>
  \/ \E c \in Clients, k \in 1..MaxSends : ReplaceMessage(c, k) /\ UNCHANGED << sseVars, reqVars, chanVars, hookVars >>
  \/ \E c \in Clients : \E m \in chatNet[c] : DeliverNewMessage(c, m) /\ UNCHANGED << sseVars, reqVars, chanVars, hookVars >>

SpecSubmit == InitOfSubmit /\ [][NextSubmit]_vars

\* One submit per client, with its write, its broadcast and the deliveries.
NextEcho ==
  \/ \E c \in Clients, x \in Contents, now \in Now :
        sends[c] = << >> /\ SendMessage(c, x, now) /\ UNCHANGED << sseVars, reqVars, chanVars, hookVars >>
  \/ \E c \in Clients, k \in 1..MaxSends : InsertMessageOk(c, k) /\ UNCHANGED << sseVars, reqVars, chanVars, hookVars >>
  \/ \E c \in Clients, k \in 1..MaxSends : InsertMessageFail(c, k) /\ UNCHANGED << sseVars, reqVars, chanVars, hookVars >>
  \/ \E c \in Clients, k \in 1..MaxSends : ReplaceMessage(c, k) /\ UNCHANGED << sseVars, reqVars, chanVars, hookVars >>
  \/ \E c \in Clients : \E m \in chatNet[c] : DeliverNewMessage(c, m) /\ UNCHANGED << sseVars, reqVars, chanVars, hookVars >>

SpecEcho == InitOfSubmit /\ [][NextEcho]_vars

\* One submit per client, merged with a snapshot load and the deliveries.
NextMerge ==
  \/ \E c \in Clients, x \in Contents, now \in Now :
        sends[c] = << >> /\ SendMessage(c, x, now) /\ UNCHANGED << sseVars, reqVars, chanVars, hookVars >>
  \/ \E c \in Clients, k \in 1..MaxSends : InsertMessageOk(c, k) /\ UNCHANGED << sseVars, reqVars, chanVars, hookVars >>
  \/ \E c \in Clients, k \in 1..MaxSends : InsertMessageFail(c, k) /\ UNCHANGED << sseVars, reqVars, chanVars, hookVars >>
  \/ \E c \in Clients, k \in 1..MaxSends : ReplaceMessage(c, k) /\ UNCHANGED << sseVars, reqVars, chanVars, hookVars >>
  \/ \E c \in Clients : \E m \in chatNet[c] : DeliverNewMessage(c, m) /\ UNCHANGED << sseVars, reqVars, chanVars, hookVars >>
  \/ \E c \in Clients : LoadMessagesQuery(c) /\ UNCHANGED << sseVars, reqVars, chanVars, hookVars >>
  \/ \E c \in Clients : LoadMessagesApply(c) /\ UNCHANGED << sseVars, reqVars, chanVars, hookVars >>

SpecMerge == InitOfChat /\ [][NextMerge]_vars

(***************************************************************************)
(* Claims about the chat hook.                                             *)
(***************************************************************************)
SendIdx(c) == 1..Len(sends[c])

AllWritesResolved(c) == \A k \in SendIdx(c) : sends[c][k].pc \in {"done", "failed"}

\* The entries of c's list that c wrote and that are confirmed / failed.
IsConfirmedOwn(c, e) == isOwnMessage(c, e) /\ ~e.optimistic /\ ~e.error
IsFailed(e) == e.error

\* C1: once all writes of a client have resolved, its list holds as many
\* confirmed entities of its own as writes succeeded, and every failed
\* entity belongs to exactly one rejected write with the same content.
C1_ConfirmedMatchesWrites ==
  \A c \in Clients :
     AllWritesResolved(c) =>
        /\ CountSeq(messages[c], LAMBDA e : IsConfirmedOwn(c, e))
              = Cardinality({ k \in SendIdx(c) : sends[c][k].pc = "done" })
        /\ \A i \in 1..Len(messages[c]) :
              IsFailed(messages[c][i]) =>
                 Cardinality({ k \in SendIdx(c) :
                     /\ sends[c][k].pc = "failed"
                     /\ sends[c][k].optId = messages[c][i].id
                     /\ sends[c][k].content = messages[c][i].content }) = 1

\* The entries of c's list that stand for call k: its placeholder or its row.
EntriesOf(c, k) ==
  { i \in 1..Len(messages[c]) :
      \/ messages[c][i].id = sends[c][k].optId
      \/ messages[c][i].id = sends[c][k].row.id }

\* C2: a submitted message whose write succeeded is shown exactly once,
\* whether its own echo was delivered before or after the replacement of the
\* placeholder; once replaced, the one entry is the server's row.
C2_EchoShownOnce ==
  \A c \in Clients : \A k \in SendIdx(c) :
     /\ sends[c][k].pc \in {"broadcast", "done"} =>
           Cardinality(EntriesOf(c, k)) = 1
     /\ sends[c][k].pc = "done" =>
           \A i \in EntriesOf(c, k) : messages[c][i] = sends[c][k].row

\* C2 witness: the echo reached its sender before the placeholder was
\* replaced, and the replacement then happened.
C2_EchoBeforeReplace ==
  \E c \in Clients : \E k \in SendIdx(c) :
     /\ sends[c][k].pc = "done"
     /\ sends[c][k].row \notin chatNet[c]
     /\ Len(messages[c]) = 1

\* C7: two submits in flight at the same time have distinct placeholder
\* identities, and a placeholder identity is never a server-assigned id.
C7_DistinctPlaceholders ==
  \A c \in Clients : \A j, k \in SendIdx(c) :
     /\ (j # k /\ sends[c][j].pc \in {"insert", "broadcast"}
               /\ sends[c][k].pc \in {"insert", "broadcast"})
           => sends[c][j].optId # sends[c][k].optId
     /\ \A i \in 1..Len(dbMessages) : dbMessages[i].id # sends[c][k].optId

\* C9 (message list): no two entries of a list have the same identity.
C9_NoDuplicateMessages ==
  \A c \in Clients : \A i, j \in 1..Len(messages[c]) :
     i # j => messages[c][i].id # messages[c][j].id

(***************************************************************************)
(* Claims about the streaming client.                                      *)
(***************************************************************************)
\* C5: after maxReconnectAttempts consecutive failed automatic connection
\* attempts (no open in between, no manual reconnect) no reconnection timer
\* is pending and the client stays in state error.
C5_NoTimerAfterCap ==
  failedReconnects >= maxReconnectAttempts =>
     /\ pendingTimers = 0
     /\ status = "error"

\* C10: whenever the streaming client holds an open stream in state
\* connected, no polling interval runs and no poll of a live effect is
\* outstanding (so none can reach setData).
C10_PollingExcludesStreaming ==
  (status = "connected" /\ eventSource = "OPEN") =>
     (~polling /\ pollInFlight = 0)


\* C3: after every operation that changes the request list, every playing
\* entity precedes every non-playing one, vote counts among non-playing
\* entities are non-increasing, and creation times among entities with equal
\* vote counts are non-decreasing.
IsOrdered(list) ==
  \A i, j \in 1..Len(list) :
    i < j =>
      /\ list[j].status = "playing" => list[i].status = "playing"
      /\ (list[i].status # "playing" /\ list[j].status # "playing")
            => list[i].vote_count >= list[j].vote_count
      /\ ( /\ (list[i].status = "playing") = (list[j].status = "playing")
           /\ list[i].vote_count = list[j].vote_count )
            => list[i].created_at <= list[j].created_at

C3_RequestsSorted == \A c \in Clients : IsOrdered(requests[c])

\* C4: when one identity has called toggleVote twice on the same request and
\* both writes have resolved, its membership is the original one and the
\* count it shows is the one shown before the first call.
WriteResolved(t) == t.pc \in {"count", "done", "failed"}

C4_DoubleToggleRestores ==
  ( /\ Len(toggles[1]) = 2
    /\ toggles[1][1].requestId = toggles[1][2].requestId
    /\ WriteResolved(toggles[1][1])
    /\ WriteResolved(toggles[1][2]) )
  => /\ shownVote(requests[1], toggles[1][1].requestId) = toggles[1][1].before
     /\ (toggles[1][1].requestId \in userVotes[1]) = toggles[1][1].isVoted

\* C6: when both clients have added a vote to the same request that had no
\* votes, and both vote-change events have been processed everywhere, both
\* clients show the count 2.
NoVoteChangePending ==
  \A c \in Clients : \A ev \in reqNet[c] : ev.event # "vote-change"

C6_BothShowTwo ==
  ( /\ \A c \in Clients : Len(toggles[c]) = 1 /\ toggles[c][1].pc = "done"
    /\ toggles[1][1].requestId = toggles[2][1].requestId
    /\ NoVoteChangePending )
  => \A c \in Clients :
        shownVote(requests[c], toggles[1][1].requestId)[1] = 2

\* C8: when the write of a client's only toggleVote call fails while the
\* request is still listed, the count, the hasUserVoted flag and the
\* userVotes membership of the request are the ones from immediately before
\* that call, and the list is sorted.
C8_RollbackRestores ==
  [][ \A c \in Clients :
        ( Len(toggles[c]) = 1 /\ Len(toggles'[c]) = 1
          /\ toggles[c][1].pc = "write" /\ toggles'[c][1].pc = "failed"
          /\ toggles[c][1].requestId \in Votable(c) )
        => /\ shownVote(requests'[c], toggles[c][1].requestId) = toggles[c][1].before
           /\ (toggles[c][1].requestId \in userVotes'[c]) = toggles[c][1].isVoted
           /\ IsOrdered(requests'[c]) ]_vars


\* The fields of the client and what its owner was told.
clientState == << eventSource, status, reconnectAttempts, reconnectTimeout,
                 pendingTimers, hookStatus >>

\* C11: right after disconnect() the client is disconnected with no stream
\* and no pending reconnection timer, the next call is never the timer's,
\* and a disconnect() that follows a disconnect() changes no field and
\* notifies nobody.
C11_AfterDisconnect ==
  lastCall.op = "disconnect" =>
    /\ status = "disconnected"
    /\ eventSource = "null"
    /\ reconnectTimeout = "null"
    /\ pendingTimers = 0

C11_DisconnectStops ==
  /\ []C11_AfterDisconnect
  /\ [][ lastCall.op = "disconnect" =>
           /\ lastCall'.op # "timer"
           /\ (lastCall'.op = "disconnect" /\ lastCall' # lastCall) =>
                (UNCHANGED clientState /\ lastCall'.notified = << >>) ]_vars

\* disconnect() has run while a reconnection timer was pending.
C11_DisconnectWithTimer ==
  lastCall.op = "disconnect" /\ lastCall.timer = "pending"

\* C12: right after reconnect(), whatever the state it was called in, the
\* attempt counter is zero, no reconnection timer is pending and a new
\* stream is connecting; when that stream then ends closed, a reconnection
\* is scheduled with the shortest delay.
C12_AfterReconnect ==
  lastCall.op = "reconnect" =>
    /\ reconnectAttempts = 0
    /\ reconnectTimeout = "null"
    /\ pendingTimers = 0
    /\ status = "connecting"
    /\ eventSource = "CONNECTING"

C12_ReconnectRestarts ==
  /\ []C12_AfterReconnect
  /\ [][ (lastCall.op = "reconnect" /\ lastCall'.op = "onerror"
            /\ eventSource' = "CLOSED") =>
           /\ status' = "error"
           /\ reconnectTimeout' = "pending"
           /\ pendingTimers' = 1
           /\ lastDelay' = reconnectDelays[1] ]_vars

\* reconnect() has run in state error while a reconnection timer was pending.
C12_ReconnectFromError ==
  /\ lastCall.op = "reconnect"
  /\ lastCall.from = "error"
  /\ lastCall.timer = "pending"

\* C13: connect() called in state disconnected or error leaves the client
\* connecting with a new stream, connect() called in state connecting or
\* connected changes neither status nor stream and notifies nobody, and
\* the open signal leaves the client connected.
C13_ConnectOpens ==
  /\ lastCall.op = "connect" =>
       IF lastCall.from \in {"disconnected", "error"}
       THEN status = "connecting" /\ eventSource = "CONNECTING"
       ELSE /\ status = lastCall.from
            /\ eventSource = lastCall.stream
            /\ lastCall.notified = << >>
  /\ lastCall.op = "onopen" => status = "connected"

\* C14: the status starts as disconnected, and every status the client
\* enters follows the state machine: connected only from connecting,
\* connecting only from disconnected or error, error only from connecting or
\* connected, disconnected only inside a call that runs disconnect().
RunsDisconnect(op) == op \in {"disconnect", "reconnect", "timer", "unmount"}

AllowedTransition(op, a, b) ==
  CASE b = "connected" -> a = "connecting"
    [] b = "connecting" -> a \in {"disconnected", "error"}
    [] b = "error" -> a \in {"connecting", "connected"}
    [] b = "disconnected" -> RunsDisconnect(op)
    [] OTHER -> FALSE

StatusPath == << lastCall.from >> \o lastCall.notified

C15_ErrorEventMovesToError ==
  /\ (lastCall.op = "onerror" /\ lastCall.from \in {"connected", "connecting"}) =>
       /\ status = "error"
       /\ reconnectAttempts < maxReconnectAttempts => reconnectTimeout = "pending"
  /\ status \in {"connected", "connecting"} => eventSource \in {"CONNECTING", "OPEN"}

\* C16: the reconnection scheduled after k consecutive automatic attempts
\* that failed without opening (k = 0..4) has the delay reconnectDelays[k]
\* of the source, that is 1000, 2000, 5000, 10000, 30000 ms.
C16_BackoffDelays ==
  ( /\ lastCall.op = "onerror"
    /\ reconnectTimeout = "pending"
    /\ failedReconnects < Len(reconnectDelays) )
  => lastDelay = reconnectDelays[failedReconnects + 1]

\* C17: a malformed stream event, and an event whose onUpdate fails, leave
\* the status, the attempt counter, the stream, the reconnection timer, what
\* the owner was told and the track shown unchanged, and a malformed event
\* does not reach onUpdate.
C17_MalformedDropped ==
  [][ (StreamMalformed \/ StreamUpdateFails) =>
        /\ UNCHANGED << clientState, lastDelay, npData >>
        /\ lastCall'.notified = << >>
        /\ ~lastCall'.updated ]_vars

\* A stream event has been handled without reaching handleRealtimeUpdate.
C17_EventDropped ==
  lastCall.op = "onmessage" /\ ~lastCall.updated /\ status = "connected"

\* C18: once the insert of a submitted request has succeeded, the list of
\* the submitting client holds exactly one entry for it (the placeholder or
\* the stored row), whether its own new-request event is processed before
\* or after the replacement.
RequestEntriesOf(c, k) ==
  { i \in 1..Len(requests[c]) :
      requests[c][i].id \in {adds[c][k].optId, adds[c][k].row.id} }

C18_RequestEchoShownOnce ==
  \A c \in Clients : \A k \in 1..Len(adds[c]) :
    adds[c][k].pc \in {"broadcast", "done"} =>
      Cardinality(RequestEntriesOf(c, k)) = 1

\* C19: no list holds an entry with status played, nor an entry of a
\* request that is played in the table, unless the status-change event that
\* removes it is still on its way to that client.
PlayedEventPending(c, id) ==
  \E ev \in reqNet[c] :
    ev.event = "status-change" /\ ev.requestId = id /\ ev.status = "played"

C19_NoPlayedEntity ==
  \A c \in Clients : \A i \in 1..Len(requests[c]) :
    LET e == requests[c][i]
    IN  /\ e.status # "played"
        /\ (~e.id.opt /\ dbRequests[e.id.n].status = "played")
              => PlayedEventPending(c, e.id)

\* C20: in every state the chat list of every client is in ascending order
\* of creation time.
C20_MessagesOrdered ==
  \A c \in Clients : \A i, j \in 1..Len(messages[c]) :
    i < j => messages[c][i].created_at <= messages[c][j].created_at

\* C21: for every entry of every list, hasUserVoted is the membership of the
\* entry's id in userVotes.
C21_FlagIsMembership ==
  \A c \in Clients : \A i \in 1..Len(requests[c]) :
    requests[c][i].hasUserVoted = (requests[c][i].id \in userVotes[c])

\* C22: when the storage rejects the vote insert of a toggleVote call with a
\* uniqueness violation, the call ends with the request in userVotes and
\* shown as voted.
C22_RejectedInsertEndsVoted ==
  [][ \A c \in Clients, k \in 1..MaxToggles :
        VoteWriteRejected(c, k) =>
          /\ toggles[c][k].requestId \in userVotes'[c]
          /\ shownVote(requests'[c], toggles[c][k].requestId)[2] ]_vars

\* C23: the step that ends the vote write of a toggleVote call with an error
\* sends a vote-change event with the stored vote count of the request, and
\* the event sent after a successful write carries the stored count.
VoteChangeSent(net, id, count) ==
  \A d \in Clients :
    [ event |-> "vote-change", requestId |-> id, voteCount |-> count ] \in net[d]

C23_VoteChangeAfterWrite ==
  [][ \A c \in Clients, k \in 1..MaxToggles :
        (VoteWriteFail(c, k) \/ VoteCountAndBroadcast(c, k)) =>
          VoteChangeSent(reqNet', toggles[c][k].requestId,
                         Cardinality(VotesFor(dbVotes', toggles[c][k].requestId))) ]_vars

\* C24: a sendMessage whose text is empty after trimming or longer than 500
\* characters, and an addRequest whose title or artist is empty after
\* trimming or longer than 100 characters, returns false and changes neither
\* the list, nor the table, nor the events in flight: every call that went
\* on had valid texts, and a call that returned false changed nothing.
TextInvalid(str, max) == str.len = 0 \/ str.len > max

ReturnedFalse(before, after) ==
  /\ Len(after) = Len(before) + 1
  /\ after[Len(after)] = RejectedCall

AcceptedTextsValid ==
  \A c \in Clients :
    /\ \A k \in 1..Len(sends[c]) :
          sends[c][k] # RejectedCall =>
            ~TextInvalid(sends[c][k].content, MAX_MESSAGE_LENGTH)
    /\ \A k \in 1..Len(adds[c]) :
          adds[c][k] # RejectedCall =>
            /\ ~TextInvalid(adds[c][k].song_name, MAX_SONG_NAME_LENGTH)
            /\ ~TextInvalid(adds[c][k].artist, MAX_ARTIST_LENGTH)

FailedPlaceholder(list, call) ==
  \E i \in 1..Len(list) :
    /\ list[i].id = call.optId
    /\ list[i].error /\ ~list[i].optimistic

C25_RejectedWriteMarksFailed ==
  \A c \in Clients :
    /\ \A k \in 1..Len(sends[c]) :
          sends[c][k].pc = "failed" =>
            /\ FailedPlaceholder(messages[c], sends[c][k])
            /\ \A i \in 1..Len(messages[c]) :
                  messages[c][i].id = sends[c][k].optId =>
                    messages[c][i].content = sends[c][k].content
    /\ \A k \in 1..Len(adds[c]) :
          adds[c][k].pc = "failed" =>
            /\ FailedPlaceholder(requests[c], adds[c][k])
            /\ \A i \in 1..Len(requests[c]) :
                  requests[c][i].id = adds[c][k].optId =>
                    requests[c][i].song_name = adds[c][k].song_name

\* C26: at the moment a submit whose write succeeded finishes, the list of
\* the submitter holds the stored row (server id, server timestamp, neither
\* optimistic nor failed) in place of the placeholder; and every new-message
\* or new-request event in flight is a stored row.
ConfirmedIn(list, call) ==
  \E i \in 1..Len(list) :
    /\ list[i].id = call.row.id
    /\ list[i].created_at = call.row.created_at
    /\ ~list[i].optimistic /\ ~list[i].error

Finishes(before, after, k) ==
  k \in 1..Len(before) /\ before[k].pc = "broadcast" /\ after[k].pc = "done"

EventsAreStoredRows ==
  \A c \in Clients :
    /\ \A m \in chatNet[c] : \E n \in 1..Len(dbMessages) : dbMessages[n] = m
    /\ \A ev \in reqNet[c] :
          ev.event = "new-request" =>
            \E n \in 1..Len(dbRequests) : dbRequests[n].id = ev.row.id

C26_SuccessReplacesAndBroadcasts ==
  /\ []EventsAreStoredRows
  /\ [][ \A c \in Clients :
           /\ \A k \in 1..MaxSends :
                 Finishes(sends[c], sends'[c], k) =>
                   ConfirmedIn(messages'[c], sends[c][k])
           /\ \A k \in 1..MaxAdds :
                 Finishes(adds[c], adds'[c], k) =>
                   ConfirmedIn(requests'[c], adds[c][k]) ]_vars

\* C27: a retryMessage on a failed entry leaves no failed entry with that id
\* in the list, appends one placeholder with the content of the failed entry
\* and issues its write; a retryMessage on an id that is absent or not
\* failed changes neither list, table nor events and issues no write.
IsRetryCall(call) == call.pc = "insert" /\ "retryOf" \in DOMAIN call

Appended(before, after) == Len(after) = Len(before) + 1

C27_RetryReplacesFailed ==
  [][ \A c \in Clients :
        Appended(sends[c], sends'[c]) =>
          LET call == sends'[c][Len(sends'[c])]
          IN  /\ IsRetryCall(call) =>
                   /\ findFailed(messages[c], call.retryOf) # 0
                   /\ findFailed(messages'[c], call.retryOf) = 0
                   /\ Len(messages'[c]) <= Len(messages[c])
                   /\ messages'[c][Len(messages'[c])] = call.row
                   /\ call.content = messages[c][findFailed(messages[c], call.retryOf)].content
              /\ call = IgnoredCall =>
                   UNCHANGED << messages, dbMessages, chatNet >> ]_vars

\* A failed message was retried and the retry was stored.
C27_RetryStored ==
  \E c \in Clients : \E k \in 1..Len(sends[c]) :
    IsRetryCall([sends[c][k] EXCEPT !.pc = "insert"]) /\ sends[c][k].pc = "done"

\* C28: when the write of a request failed and the write of its retry
\* succeeded and the retry has finished, the list of the submitter holds
\* exactly one entry for that request, with the server id, neither
\* optimistic nor failed.
EntriesOfRetry(list, call) ==
  { i \in 1..Len(list) : list[i].id \in { call.retryOf, call.optId, call.row.id } }

C28_RetriedRequestShownOnce ==
  \A c \in Clients : \A k \in 1..Len(adds[c]) :
    ("retryOf" \in DOMAIN adds[c][k] /\ adds[c][k].pc = "done") =>
      /\ Cardinality(EntriesOfRetry(requests[c], adds[c][k])) = 1
      /\ ConfirmedIn(requests[c], adds[c][k])

\* C29: no sendMessage call ends in its catch block because of broadcast():
\* whatever the channel state and whatever channel.send does, the call whose
\* insert succeeded goes on, and when it finishes every entry with its
\* placeholder id has become the stored row.
NoBroadcastRaised ==
  \A c \in Clients : \A k \in 1..Len(sends[c]) : sends[c][k].pc # "threw"

PlaceholderSwapped(before, after, call) ==
  /\ Len(after) = Len(before)
  /\ \A i \in 1..Len(before) :
        after[i] = IF before[i].id = call.optId THEN call.row ELSE before[i]

C29_BroadcastNeverBlocks ==
  /\ []NoBroadcastRaised
  /\ [][ \A c \in Clients, k \in 1..MaxSends :
           Finishes(sends[c], sends'[c], k) =>
             PlaceholderSwapped(messages[c], messages'[c], sends[c][k]) ]_vars

\* A message was confirmed although its broadcast was attempted on a channel
\* that had not joined and channel.send rejected.
C29_ConfirmedWithoutBroadcast ==
  \E k \in 1..Len(sends[1]) :
    /\ sends[1][k].pc = "done"
    /\ sends[1][k].viaState = "joining"
    /\ sends[1][k].outcome = "rejected"
    /\ \E i \in 1..Len(messages[1]) : messages[1][i] = sends[1][k].row

\* C30: a channel whose effect was cleaned up has been released, exactly
\* once, whatever state it was in; no channel is released twice; and an
\* envelope runs no callback of a cleaned-up effect and at most one callback
\* of the hook.
C30_TeardownReleases ==
  \A c \in Clients :
    /\ \A i \in 1..Len(channels[c]) :
          /\ channels[c][i].removeCalls <= 1
          /\ ~channels[c][i].live => channels[c][i].removeCalls = 1
    /\ received[c].stale = 0
    /\ received[c].handlers <= 1

\* C31: after a component is torn down none of its timers runs any more:
\* every callback of a typing-expiry timer and of the typing debounce timer
\* ran while the component of its hook was mounted.
C31_NoTimerAfterTeardown ==
  \A c \in Clients : timerRuns[c].kind # "none" => timerRuns[c].mounted

\* The identities listed by c.
TypingIds(list) == { list[i].userId : i \in 1..Len(list) }

\* At most one entry per identity, none for the local identity, and none
\* older than TYPING_TIMEOUT.
TypingListWellFormed ==
  \A c \in Clients :
     /\ Cardinality(TypingIds(typingUsers[c])) = Len(typingUsers[c])
     /\ Profile(c).id \notin TypingIds(typingUsers[c])
     /\ \A i \in 1..Len(typingUsers[c]) :
           time - typingUsers[c][i].at <= TYPING_TIMEOUT

\* C34: the typing list holds at most one entry per identity and none for
\* the local identity, no entry outlives the 3 s after the last signal of
\* its identity, and an entry leaves the list only when 3 s have passed
\* since the signal that refreshed it last.
C34_TypingExpires ==
  /\ []TypingListWellFormed
  /\ [][\A c \in Clients : \A i \in 1..Len(typingUsers[c]) :
           typingUsers[c][i].userId \notin TypingIds(typingUsers'[c])
              => time - typingUsers[c][i].at >= TYPING_TIMEOUT]_vars

\* The position of the entity with id i of the input in list.
PositionOf(list, i) == CHOOSE k \in 1..Len(list) : list[k].id = SrvId(i)

\* list holds the entities of input, each once.
IsPermutation(list, input) ==
  /\ Len(list) = Len(input)
  /\ \A i \in 1..Len(input) : \E k \in 1..Len(list) : list[k] = input[i]

\* Entities that compare equal are in list in the order they have in input.
KeepsEqualsInOrder(list, input) ==
  \A i, j \in 1..Len(input) :
     (i < j /\ compareRequests(input[i], input[j]) = 0)
        => PositionOf(list, i) < PositionOf(list, j)

\* C33: sortRequests returns a permutation of its input with playing
\* entities first, then by vote count descending, then by creation time
\* ascending; entities that compare equal keep their order, the input list
\* is left as it was, and sorting the returned list changes nothing.
C33_SortRequests ==
  /\ [](sortCalls >= 1 =>
          /\ IsPermutation(sortResult, sortInput)
          /\ IsOrdered(sortResult)
          /\ KeepsEqualsInOrder(sortResult, sortInput))
  /\ [][ /\ sortInput' = sortInput
         /\ sortCalls = 1 => sortResult' = sortResult ]_vars

\* An input out of order in which two entities compare equal was sorted,
\* and the result was sorted again.
C33_UnsortedWithTies ==
  /\ sortCalls = 2
  /\ sortResult # sortInput
  /\ \E i, j \in 1..Len(sortInput) :
        /\ i < j
        /\ compareRequests(sortInput[i], sortInput[j]) = 0
        /\ \E k \in 1..Len(sortInput) :
              k > j /\ compareRequests(sortInput[k], sortInput[i]) < 0

\* The identities of the entities of list.
IdsOf(list) == { list[i].id : i \in 1..Len(list) }

\* C35: applying the result of a snapshot load removes no entity that a
\* local submit or a remote broadcast put into the message list before the
\* load completed.
C35_LoadKeepsEntities ==
  [][ \A c \in Clients :
        (chatLoad[c].pc = "fetched" /\ chatLoad'[c].pc = "done")
           => IdsOf(messages[c]) \subseteq IdsOf(messages'[c]) ]_vars

\* C36: a 'new-message' payload sent by another client instance and
\* delivered to this one is in the list of this one exactly once, also when
\* both instances have the same author identity.
C36_ForeignMessageShownOnce ==
  \A c \in Clients : \A d \in Clients \ {c} : \A k \in SendIdx(c) :
     (sends[c][k].pc \in {"broadcast", "done"} /\ sends[c][k].row \notin chatNet[d])
        => Cardinality({ i \in 1..Len(messages[d]) :
                            messages[d][i].id = sends[c][k].row.id }) = 1

\* C37: the voteCount of every vote-change payload is the count the count
\* query returned, and a toggleVote whose count query failed hands no
\* payload to broadcast().
C37_CountIsStored ==
  \A c \in Clients : \A k \in 1..Len(toggles[c]) :
     toggles[c][k].pc = "done" =>
        /\ toggles[c][k].count # -1
              => toggles[c][k].payload.voteCount = toggles[c][k].count
        /\ toggles[c][k].count = -1 => ~toggles[c][k].sent

\* C38: the vote count of every request in a visible list is never negative.
C38_VoteCountNotNegative ==
  \A c \in Clients : \A i \in 1..Len(requests[c]) : requests[c][i].vote_count >= 0

\* C39: at most one reconnection timer of the client is pending, the
\* attempt counter is within 0..maxReconnectAttempts, and a disconnected
\* client has no stream and no pending reconnection timer.
C39_ClientInvariant ==
  /\ pendingTimers <= 1
  /\ reconnectAttempts \in 0..maxReconnectAttempts
  /\ status = "disconnected" =>
        (eventSource = "null" /\ pendingTimers = 0 /\ reconnectTimeout # "pending")

\* The client was disconnected while it was in error with its reconnection
\* timer pending.
C39_DisconnectedFromError ==
  /\ status = "disconnected"
  /\ lastCall.op = "disconnect"
  /\ lastCall.from = "error"
  /\ lastCall.timer = "pending"

\* The payloads on their way, over all clients.
TracksInFlight ==
  Cardinality(trackNet[1]) + Cardinality(trackNet[2])

TaggedFailed(list, id) ==
  \A i \in 1..Len(list) : list[i].id = id => list[i].error

====
